---- MODULE Spec2Model ----
(***************************************************************************)
(* Model of the auto-alignment engine of dagu-daren                        *)
(* (src/annotation_tools/auto_aligner.py): quantization-grid generation,   *)
(* nearest-grid-point matching, the per-annotation alignment loop and the   *)
(* conflict resolver.                                                       *)
(*                                                                          *)
(* Numbers.  Python floats are modelled by exact integers:                  *)
(*   - a time is a whole number of ticks, TicksPerMicro ticks to the        *)
(*     microsecond, so that round(t, 6) is a real rounding;                 *)
(*   - a tolerance and a swing ratio are whole percents (0.25 is 25);       *)
(*   - a grid strength is a whole number of tenths (0.7 is 7);              *)
(*   - a confidence is a fraction <<num, den>>, and <<0, 0>> is the float   *)
(*     nan that numpy returns for 0.0 / 0.0.                                *)
(* The inputs the specifications draw are multiples that make every         *)
(* division of the source exact.                                            *)
(***************************************************************************)
EXTENDS Integers, Sequences, FiniteSets, TLC

VARIABLES
    pc,                   \* position of the call
    annotations,          \* the caller's list: references into dicts
    beat_grid,            \* the beat_grid argument
    quantize_mode,        \* the quantize_mode argument (the enum's value)
    swing_amount,         \* the swing_amount argument (the enum's name)
    custom_swing,         \* the custom_swing argument, in percent
    tolerance,            \* the tolerance argument, in percent
    preserve_off_beat,    \* the preserve_off_beat argument
    first_measure_start,  \* the first_measure_start argument, in ticks
    dicts,                \* heap of annotation dicts, a reference is an index
    infos,                \* heap of alignment_info dicts
    caller_events,        \* what the caller's dicts held when the call began
    quant_grid,           \* local quant_grid
    idx,                  \* position of the for loop in annotations
    original_time,        \* local original_time (the Matcher's first argument)
    alignment_result,     \* local alignment_result
    aligned_annotations,  \* the list the per-annotation loop appends to
    alignment_stats,      \* local alignment_stats
    result,               \* the returned dictionary
    call_no,              \* which call of the caller this is: 1, or 2 for a
                          \* call on the list the first call returned
    suspended             \* the frame of a second call in progress on the same
                          \* AutoAligner while it is not the one running, or <<>>

vars == <<pc, annotations, beat_grid, quantize_mode, swing_amount, custom_swing,
          tolerance, preserve_off_beat, first_measure_start, dicts, infos,
          caller_events, quant_grid, idx, original_time, alignment_result,
          aligned_annotations, alignment_stats, result, call_no, suspended>>

----------------------------------------------------------------------------
(* Units and bounds *)

\* ticks per microsecond: the time resolution of the model
TicksPerMicro == 3

\* longest annotation list a call of auto_align_annotations is given
MaxEvents == 2

\* longest list the conflict resolver is applied to on its own
MaxResolveLen == 3

\* longest grid the Matcher is applied to on its own
MaxGridLen == 3

Milli == 1000 * TicksPerMicro

\* the difference as it is, without np.abs
AbsSigned(x) == x

Abs(x) == IF x < 0 THEN -x ELSE x

----------------------------------------------------------------------------
(* Floating-point helpers *)

\* the float nan, as a confidence
NaN == <<0, 0>>

IsNaN(c) == c[2] = 0

\* a > b on confidences; every comparison with nan is false
ConfGt(a, b) ==
    IF IsNaN(a) \/ IsNaN(b) THEN FALSE
    ELSE IF a[2] = b[2] THEN a[1] > b[1]
    ELSE a[1] * b[2] > b[1] * a[2]

\* 0 <= c <= 1 on a confidence
ConfInUnit(c) == c[2] > 0 /\ 0 <= c[1] /\ c[1] <= c[2]

\* round(t, 6): the nearest whole microsecond, a tie going to the even one
Round6(t) ==
    LET q == t \div TicksPerMicro
        r == t % TicksPerMicro
    IN  IF 2 * r < TicksPerMicro THEN q * TicksPerMicro
        ELSE IF 2 * r > TicksPerMicro THEN (q + 1) * TicksPerMicro
        ELSE IF q % 2 = 0 THEN q * TicksPerMicro
        ELSE (q + 1) * TicksPerMicro

----------------------------------------------------------------------------
(* QuantizeMode, SwingAmount *)

QuantizeMode == {"1/4", "1/8", "1/16", "1/4+swing", "1/8+swing", "1/16+swing",
                 "1/4T", "1/8T", "off"}

SwingAmount == {"LIGHT", "MEDIUM", "HEAVY", "CUSTOM"}

\* AutoAligner.swing_ratios, in percent
swing_ratios(amount) ==
    CASE amount = "LIGHT" -> 55
      [] amount = "MEDIUM" -> 60
      [] amount = "HEAVY" -> 67

----------------------------------------------------------------------------
(* _generate_quantization_grid *)

\* list.sort(key=time) is stable: p goes after every point that is not later
RECURSIVE InsertByTime(_, _)
InsertByTime(s, p) ==
    IF s = <<>> THEN <<p>>
    ELSE IF s[Len(s)].time <= p.time THEN Append(s, p)
    ELSE Append(InsertByTime(SubSeq(s, 1, Len(s) - 1), p), s[Len(s)])

RECURSIVE SortByTimeFrom(_, _, _)
SortByTimeFrom(points, k, acc) ==
    IF k > Len(points) THEN acc
    ELSE SortByTimeFrom(points, k + 1, InsertByTime(acc, points[k]))

\* the points in the order they were appended, without the sort
Unsorted(points) == points

SortByTime(points) == SortByTimeFrom(points, 1, <<>>)

SixteenthType(i) == <<"sixteenth_0", "sixteenth_1", "sixteenth_2", "sixteenth_3">>[i + 1]

TripletType(i) == <<"triplet_eighth_0", "triplet_eighth_1", "triplet_eighth_2">>[i + 1]

\* f'{quantize_mode.value}_{i}'
SwingType(mode, i) ==
    CASE mode = "1/4+swing" -> <<"1/4+swing_0">>[i + 1]
      [] mode = "1/8+swing" -> <<"1/8+swing_0", "1/8+swing_1">>[i + 1]
      [] mode = "1/16+swing" ->
            <<"1/16+swing_0", "1/16+swing_1", "1/16+swing_2", "1/16+swing_3">>[i + 1]

SwingSubdivision(mode) ==
    IF mode = "1/8+swing" THEN 2
    ELSE IF mode = "1/4+swing" THEN 1
    ELSE 4

\* the off-beat delayed by the swing ratio itself, not by its excess over 0.5
SwingNoteTimeFromRatio(beat_time, i, beat_interval, subdivision, swing_ratio) ==
    IF i % 2 = 0
    THEN beat_time + (i * beat_interval) \div subdivision
    ELSE beat_time + (i * beat_interval) \div subdivision
         + ((beat_interval \div subdivision) * swing_ratio) \div 100

\* the time of subdivision i of a swing beat
SwingNoteTime(beat_time, i, beat_interval, subdivision, swing_ratio) ==
    IF i % 2 = 0
    THEN beat_time + (i * beat_interval) \div subdivision
    ELSE LET straight_time == beat_interval \div subdivision
             swing_delay == (straight_time * (2 * swing_ratio - 100)) \div 100
         IN  beat_time + (i * beat_interval) \div subdivision + swing_delay

\* the points one beat contributes, in the order they are appended
RECURSIVE SubdivisionPoints(_, _, _, _, _, _, _)
SubdivisionPoints(mode, beat_time, beat_interval, duration, swing_ratio, i, n) ==
    IF i >= n THEN <<>>
    ELSE
        LET t == CASE mode = "1/16" -> beat_time + (i * beat_interval) \div 4
                   [] mode = "1/8T" -> beat_time + (i * beat_interval) \div 3
                   [] OTHER -> SwingNoteTime(beat_time, i, beat_interval,
                                             SwingSubdivision(mode), swing_ratio)
            p == CASE mode = "1/16" ->
                        [time |-> t, type |-> SixteenthType(i),
                         strength |-> IF i = 0 THEN 10 ELSE IF i = 2 THEN 8 ELSE 6,
                         beat_position |-> IF i = 0 THEN "on_beat" ELSE "subdivision"]
                   [] mode = "1/8T" ->
                        [time |-> t, type |-> TripletType(i),
                         strength |-> IF i = 0 THEN 10 ELSE 6,
                         beat_position |-> "triplet"]
                   [] OTHER ->
                        [time |-> t, type |-> SwingType(mode, i),
                         strength |-> IF i = 0 THEN 10 ELSE 7,
                         beat_position |-> IF i % 2 = 0 THEN "swing_on" ELSE "swing_off",
                         swing_ratio |-> swing_ratio]
            rest == SubdivisionPoints(mode, beat_time, beat_interval, duration,
                                      swing_ratio, i + 1, n)
        IN  IF t <= duration THEN <<p>> \o rest ELSE rest

BeatPoints(mode, beat_time, beat_interval, duration, swing_ratio) ==
    IF ~(beat_time <= duration) THEN <<>>
    ELSE CASE mode = "1/4" ->
                <<[time |-> beat_time, type |-> "quarter", strength |-> 10,
                   beat_position |-> "on_beat"]>>
           [] mode = "1/8" ->
                LET off_beat_time == beat_time + beat_interval \div 2
                IN  <<[time |-> beat_time, type |-> "eighth_on", strength |-> 10,
                       beat_position |-> "on_beat"]>>
                    \o (IF off_beat_time <= duration
                        THEN <<[time |-> off_beat_time, type |-> "eighth_off",
                                strength |-> 7, beat_position |-> "off_beat"]>>
                        ELSE <<>>)
           [] mode = "1/16" ->
                SubdivisionPoints(mode, beat_time, beat_interval, duration, swing_ratio, 0, 4)
           [] mode \in {"1/8+swing", "1/4+swing", "1/16+swing"} ->
                SubdivisionPoints(mode, beat_time, beat_interval, duration, swing_ratio,
                                  0, SwingSubdivision(mode))
           [] mode = "1/8T" ->
                SubdivisionPoints(mode, beat_time, beat_interval, duration, swing_ratio, 0, 3)
           [] OTHER -> <<>>

\* the grid built on the beats as detected, without first_measure_start
RECURSIVE GridPointsFromUnshifted(_, _, _, _, _, _, _)
GridPointsFromUnshifted(mode, beats, k, shift, beat_interval, duration, swing_ratio) ==
    IF k > Len(beats) THEN <<>>
    ELSE BeatPoints(mode, beats[k], beat_interval, duration, swing_ratio)
         \o GridPointsFromUnshifted(mode, beats, k + 1, shift, beat_interval, duration,
                                    swing_ratio)

RECURSIVE GridPointsFrom(_, _, _, _, _, _, _)
GridPointsFrom(mode, beats, k, shift, beat_interval, duration, swing_ratio) ==
    IF k > Len(beats) THEN <<>>
    ELSE BeatPoints(mode, beats[k] + shift, beat_interval, duration, swing_ratio)
         \o GridPointsFrom(mode, beats, k + 1, shift, beat_interval, duration, swing_ratio)

\* the first key of beat_grid the function reads and does not find, or ""
GridMissingKey(bg) ==
    IF "beats" \notin DOMAIN bg THEN "beats"
    ELSE IF "beat_interval" \notin DOMAIN bg THEN "beat_interval"
    ELSE IF "duration" \notin DOMAIN bg THEN "duration"
    ELSE ""

\* the mode "off" falling into the quarter-note branch
GenerateQuantizationGridOffAsQuarter(bg, mode, amount, custom, fms) ==
    IF GridMissingKey(bg) # ""
    THEN [raised |-> TRUE, error |-> GridMissingKey(bg), grid |-> <<>>]
    ELSE LET swing_ratio == IF amount = "CUSTOM" THEN custom ELSE swing_ratios(amount)
         IN  [raised |-> FALSE, error |-> "",
              grid |-> SortByTime(GridPointsFrom(IF mode = "off" THEN "1/4" ELSE mode,
                                                 bg.beats, 1, fms, bg.beat_interval,
                                                 bg.duration, swing_ratio))]

\* _generate_quantization_grid(beat_grid, quantize_mode, swing_amount,
\* custom_swing, first_measure_start): the sorted grid, or the KeyError raised
GenerateQuantizationGrid(bg, mode, amount, custom, fms) ==
    IF GridMissingKey(bg) # ""
    THEN [raised |-> TRUE, error |-> GridMissingKey(bg), grid |-> <<>>]
    ELSE LET swing_ratio == IF amount = "CUSTOM" THEN custom ELSE swing_ratios(amount)
         IN  [raised |-> FALSE, error |-> "",
              grid |-> SortByTime(GridPointsFrom(mode, bg.beats, 1, fms,
                                                 bg.beat_interval, bg.duration,
                                                 swing_ratio))]

----------------------------------------------------------------------------
(* _find_best_alignment *)

\* np.argmin(np.abs(grid_times - original_time)): the first index of a minimum
RECURSIVE ArgMinFrom(_, _, _, _)
ArgMinFrom(grid, t, k, best) ==
    IF k > Len(grid) THEN best
    ELSE IF Abs(grid[k].time - t) < Abs(grid[best].time - t)
    THEN ArgMinFrom(grid, t, k + 1, k)
    ELSE ArgMinFrom(grid, t, k + 1, best)

\* the last index of a minimum instead of the first
RECURSIVE ArgMinLastFrom(_, _, _, _)
ArgMinLastFrom(grid, t, k, best) ==
    IF k > Len(grid) THEN best
    ELSE ArgMinLastFrom(grid, t, k + 1,
                        IF Abs(grid[k].time - t) <= Abs(grid[best].time - t)
                        THEN k ELSE best)

ArgMinLast(grid, t) == ArgMinLastFrom(grid, t, 2, 1)

\* the first of the strongest points instead of the first of the nearest
ArgMinStrongest(grid, t) ==
    CHOOSE k \in 1..Len(grid) :
        /\ \A j \in 1..Len(grid) : grid[j].strength <= grid[k].strength
        /\ \A j \in 1..(k - 1) : grid[j].strength < grid[k].strength

ArgMin(grid, t) == ArgMinFrom(grid, t, 2, 1)

\* the tolerance taken as seconds instead of a fraction of the beat
ToleranceSecondsAbsolute(tol, beat_interval) == tol * 10 * Milli

ToleranceSeconds(tol, beat_interval) == (tol * beat_interval) \div 100

\* the distance factor without its weight of 0.7
ConfidenceUnweighted(closest_distance, tolerance_seconds, strength) ==
    IF tolerance_seconds = 0 THEN NaN
    ELSE <<100 * (tolerance_seconds - closest_distance) + 3 * strength * tolerance_seconds,
           100 * tolerance_seconds>>

\* (distance_factor * 0.7) + (strength_factor * 0.3); 0.0 / 0.0 is nan
Confidence(closest_distance, tolerance_seconds, strength) ==
    IF tolerance_seconds = 0 THEN NaN
    ELSE <<70 * (tolerance_seconds - closest_distance) + 3 * strength * tolerance_seconds,
           100 * tolerance_seconds>>

\* the comparison made strict
WithinToleranceStrict(closest_distance, tolerance_seconds) ==
    closest_distance < tolerance_seconds

\* closest_distance <= tolerance_seconds
WithinTolerance(closest_distance, tolerance_seconds) ==
    closest_distance <= tolerance_seconds

\* lines 326-358: the closest grid point and the tolerance check
MatchClosest(t, grid, tol, beat_interval) ==
    LET closest_idx == ArgMin(grid, t)
        closest_distance == Abs(grid[closest_idx].time - t)
        tolerance_seconds == ToleranceSeconds(tol, beat_interval)
        closest_point == grid[closest_idx]
    IN  IF WithinTolerance(closest_distance, tolerance_seconds)
        THEN [aligned |-> TRUE,
              new_time |-> closest_point.time,
              adjustment |-> closest_point.time - t,
              grid_position |-> closest_point.type,
              confidence |-> Confidence(closest_distance, tolerance_seconds,
                                        closest_point.strength),
              original_distance |-> closest_distance]
        ELSE [aligned |-> FALSE,
              reason |-> "outside_tolerance",
              closest_distance |-> closest_distance,
              tolerance |-> tolerance_seconds]

\* the Matcher without its empty-grid test: np.argmin raises on an empty array
FindBestAlignmentNoEmptyCheck(t, grid, tol, beat_interval) ==
    IF grid = <<>> THEN [raised |-> "attempt to get argmin of an empty sequence"]
    ELSE MatchClosest(t, grid, tol, beat_interval)

\* _find_best_alignment(original_time, quant_grid, tolerance, beat_interval)
FindBestAlignment(t, grid, tol, beat_interval) ==
    IF grid = <<>> THEN [aligned |-> FALSE, reason |-> "empty_grid"]
    ELSE MatchClosest(t, grid, tol, beat_interval)

----------------------------------------------------------------------------
(* Python dicts and the heap *)

\* d[k] = v on a dict: the key is added when it is not there
SetKey(d, k, v) == [x \in (DOMAIN d) \cup {k} |-> IF x = k THEN v ELSE d[x]]

\* the assignment without the copy: the same dict under a second name
CopyDictAlias(ds, ref) == [dicts |-> ds, ref |-> ref]

\* annotation.copy(): a new dict with the same keys and values (a shallow
\* copy: a nested alignment_info dict is shared)
CopyDict(ds, ref) == [dicts |-> Append(ds, ds[ref]), ref |-> Len(ds) + 1]

\* what a caller sees of the dicts of a list: each dict and, when it has one,
\* its alignment_info dict
Snapshot(ds, is, anns) ==
    [i \in 1..Len(anns) |->
        [dict |-> ds[anns[i]],
         info |-> IF "alignment_info" \in DOMAIN ds[anns[i]]
                  THEN <<is[ds[anns[i]].alignment_info]>> ELSE <<>>]]

----------------------------------------------------------------------------
(* _resolve_conflicts *)

\* x.get('alignment_info', {}).get('confidence', 0)
ConfidenceOf(ds, is, ref) ==
    IF "alignment_info" \notin DOMAIN ds[ref] THEN <<0, 1>>
    ELSE IF "confidence" \notin DOMAIN is[ds[ref].alignment_info] THEN <<0, 1>>
    ELSE is[ds[ref].alignment_info].confidence

\* max(group, key=confidence): the first annotation no later one exceeds
RECURSIVE BestFrom(_, _, _, _, _)
BestFrom(ds, is, group, k, best) ==
    IF k > Len(group) THEN best
    ELSE BestFrom(ds, is, group, k + 1,
                  IF ConfGt(ConfidenceOf(ds, is, group[k]), ConfidenceOf(ds, is, best))
                  THEN group[k] ELSE best)

BestAnnotation(ds, is, group) == BestFrom(ds, is, group, 2, group[1])

\* the time keys with the latest inserted first
RECURSIVE TimeKeysReversedFrom(_, _, _, _)
TimeKeysReversedFrom(ds, anns, k, keys) ==
    IF k > Len(anns) THEN keys
    ELSE LET time_key == Round6(ds[anns[k]].time)
         IN  IF \E j \in 1..Len(keys) : keys[j] = time_key
             THEN TimeKeysReversedFrom(ds, anns, k + 1, keys)
             ELSE TimeKeysReversedFrom(ds, anns, k + 1, <<time_key>> \o keys)

\* the time keys of time_groups, in insertion order
RECURSIVE TimeKeysFrom(_, _, _, _)
TimeKeysFrom(ds, anns, k, keys) ==
    IF k > Len(anns) THEN keys
    ELSE LET time_key == Round6(ds[anns[k]].time)
         IN  TimeKeysFrom(ds, anns, k + 1,
                          IF \E j \in 1..Len(keys) : keys[j] = time_key
                          THEN keys ELSE Append(keys, time_key))

\* time_groups[time_key]
RECURSIVE TimeGroupFrom(_, _, _, _)
TimeGroupFrom(ds, anns, time_key, k) ==
    IF k > Len(anns) THEN <<>>
    ELSE (IF Round6(ds[anns[k]].time) = time_key THEN <<anns[k]>> ELSE <<>>)
         \o TimeGroupFrom(ds, anns, time_key, k + 1)

\* the same 1 ms for every later annotation of the group
OffsetTimeFlat(t, i) == t + Milli

\* the time given to the i-th annotation (0-based) of a group of different types
OffsetTime(t, i) == t + Milli * i

\* the else branch of a conflict: the first annotation as it is, each later one
\* as a copy moved by 1 ms per position and flagged through its alignment_info
RECURSIVE OffsetGroupFrom(_, _, _, _, _)
OffsetGroupFrom(ds, is, group, k, out) ==
    IF k > Len(group) THEN [dicts |-> ds, infos |-> is, out |-> out, error |-> ""]
    ELSE IF k = 1 THEN OffsetGroupFrom(ds, is, group, 2, Append(out, group[1]))
    ELSE LET c == CopyDict(ds, group[k])
             moved == [c.dicts EXCEPT ![c.ref] =
                          SetKey(@, "time", OffsetTime(@.time, k - 1))]
         IN  IF "alignment_info" \notin DOMAIN moved[c.ref]
             THEN [dicts |-> moved, infos |-> is, out |-> out, error |-> "alignment_info"]
             ELSE OffsetGroupFrom(
                      moved,
                      [is EXCEPT ![moved[c.ref].alignment_info] =
                          SetKey(@, "conflict_resolved", TRUE)],
                      group, k + 1, Append(out, c.ref))

\* one iteration of the loop over time_groups
ResolveGroup(ds, is, group, out) ==
    IF Len(group) = 1
    THEN [dicts |-> ds, infos |-> is, out |-> Append(out, group[1]), error |-> ""]
    ELSE IF \E k \in 1..Len(group) : "type" \notin DOMAIN ds[group[k]]
    THEN [dicts |-> ds, infos |-> is, out |-> out, error |-> "type"]
    ELSE IF \A k \in 1..Len(group) : ds[group[k]].type = ds[group[1]].type
    THEN [dicts |-> ds, infos |-> is,
          out |-> Append(out, BestAnnotation(ds, is, group)), error |-> ""]
    ELSE OffsetGroupFrom(ds, is, group, 1, out)

RECURSIVE ResolveGroupsFrom(_, _, _, _, _, _)
ResolveGroupsFrom(ds, is, anns, keys, k, out) ==
    IF k > Len(keys) THEN [dicts |-> ds, infos |-> is, out |-> out, error |-> ""]
    ELSE LET r == ResolveGroup(ds, is, TimeGroupFrom(ds, anns, keys[k], 1), out)
         IN  IF r.error # "" THEN r
             ELSE ResolveGroupsFrom(r.dicts, r.infos, anns, keys, k + 1, r.out)

\* _resolve_conflicts(annotations): the heap after it, the list it returns and
\* the key of the KeyError it raises ("" when it returns)
ResolveConflicts(ds, is, anns) ==
    IF \E k \in 1..Len(anns) : "time" \notin DOMAIN ds[anns[k]]
    THEN [dicts |-> ds, infos |-> is, out |-> <<>>, error |-> "time"]
    ELSE ResolveGroupsFrom(ds, is, anns, TimeKeysFrom(ds, anns, 1, <<>>), 1, <<>>)

----------------------------------------------------------------------------
(* auto_align_annotations *)

RECURSIVE SumSeq(_)
SumSeq(s) == IF s = <<>> THEN 0 ELSE s[1] + SumSeq(Tail(s))

\* the smallest element instead of the largest
RECURSIVE MinSeq(_)
MinSeq(s) ==
    IF Len(s) = 1 THEN s[1]
    ELSE LET m == MinSeq(Tail(s)) IN IF m < s[1] THEN m ELSE s[1]

RECURSIVE MaxSeq(_)
MaxSeq(s) ==
    IF Len(s) = 1 THEN s[1]
    ELSE LET m == MaxSeq(Tail(s)) IN IF m > s[1] THEN m ELSE s[1]

\* the alignment_stats dict before the loop
InitialStats ==
    [total_processed |-> 0, aligned_count |-> 0, preserved_count |-> 0,
     conflicts_resolved |-> 0, average_adjustment |-> <<0, 1>>, max_adjustment |-> 0,
     adjustments |-> <<>>, outside_tolerance_count |-> 0, closest_distances |-> <<>>]

\* an except clause that returns an empty list
ErrorResultEmpty(anns, e) ==
    [aligned_annotations |-> <<>>,
     alignment_stats |-> [error |-> e],
     quantization_info |-> [error |-> e]]

\* the dictionary the except clause returns: the caller's own list
ErrorResult(anns, e) ==
    [aligned_annotations |-> anns,
     alignment_stats |-> [error |-> e],
     quantization_info |-> [error |-> e]]

\* the first key of beat_grid the function itself reads and does not find, or ""
CallMissingKey(bg) ==
    IF "bpm" \notin DOMAIN bg THEN "bpm"
    ELSE IF "beat_interval" \notin DOMAIN bg THEN "beat_interval"
    ELSE ""

\* original_time read after the copy's time was overwritten
AlignedInfoAfterMove(t, r, mode) ==
    [original_time |-> r.new_time, adjustment |-> r.adjustment,
     grid_position |-> r.grid_position, quantize_mode |-> mode,
     confidence |-> r.confidence]

\* the alignment_info of an aligned copy
AlignedInfo(t, r, mode) ==
    [original_time |-> t, adjustment |-> r.adjustment,
     grid_position |-> r.grid_position, quantize_mode |-> mode,
     confidence |-> r.confidence]

\* the confidence looked up in the Matcher's result, which has none
PreservedInfoMatcherConfidence(t, r) ==
    [original_time |-> t, adjustment |-> 0, grid_position |-> "off_beat",
     quantize_mode |-> "preserved", confidence |-> <<0, 1>>, reason |-> r.reason]

\* the alignment_info of a preserved copy
PreservedInfo(t, r) ==
    [original_time |-> t, adjustment |-> 0, grid_position |-> "off_beat",
     quantize_mode |-> "preserved", confidence |-> <<1, 1>>, reason |-> r.reason]

\* alignment_stats after an aligned annotation
StatsAligned(stats, r) ==
    [stats EXCEPT !.aligned_count = @ + 1,
                  !.adjustments = Append(@, Abs(r.adjustment))]

\* a preserved annotation that is not counted
StatsPreservedUncounted(stats, r) ==
    IF r.reason = "outside_tolerance"
    THEN [stats EXCEPT !.outside_tolerance_count = @ + 1,
                       !.closest_distances = Append(@, r.closest_distance)]
    ELSE stats

\* alignment_stats after a preserved annotation
StatsPreserved(stats, r) ==
    IF r.reason = "outside_tolerance"
    THEN [stats EXCEPT !.preserved_count = @ + 1,
                       !.outside_tolerance_count = @ + 1,
                       !.closest_distances = Append(@, r.closest_distance)]
    ELSE [stats EXCEPT !.preserved_count = @ + 1]

\* one iteration of the loop over annotations: the heap, the list and the
\* statistics after it, or the message of the exception that leaves it (the
\* KeyError of a missing time, or whatever the Matcher raises)
AlignOne(ds, is, aligned, stats, ref, grid, tol, beat_interval, mode, preserve) ==
    IF "time" \notin DOMAIN ds[ref]
    THEN [dicts |-> ds, infos |-> is, aligned |-> aligned, stats |-> stats,
          original_time |-> 0, alignment_result |-> <<>>, error |-> "time"]
    ELSE
        LET t == ds[ref].time
            r == FindBestAlignment(t, grid, tol, beat_interval)
            c == CopyDict(ds, ref)
            newinfo == Len(is) + 1
        IN  IF "raised" \in DOMAIN r
            THEN [dicts |-> ds, infos |-> is, aligned |-> aligned, stats |-> stats,
                  original_time |-> t, alignment_result |-> <<>>, error |-> r.raised]
            ELSE IF r.aligned
            THEN [dicts |-> [c.dicts EXCEPT ![c.ref] =
                                SetKey(SetKey(@, "time", r.new_time),
                                       "alignment_info", newinfo)],
                  infos |-> Append(is, AlignedInfo(t, r, mode)),
                  aligned |-> Append(aligned, c.ref),
                  stats |-> [StatsAligned(stats, r) EXCEPT !.total_processed = @ + 1],
                  original_time |-> t, alignment_result |-> r, error |-> ""]
            ELSE IF preserve
            THEN [dicts |-> [c.dicts EXCEPT ![c.ref] =
                                SetKey(@, "alignment_info", newinfo)],
                  infos |-> Append(is, PreservedInfo(t, r)),
                  aligned |-> Append(aligned, c.ref),
                  stats |-> [StatsPreserved(stats, r) EXCEPT !.total_processed = @ + 1],
                  original_time |-> t, alignment_result |-> r, error |-> ""]
            ELSE [dicts |-> ds, infos |-> is, aligned |-> aligned,
                  stats |-> [stats EXCEPT !.total_processed = @ + 1],
                  original_time |-> t, alignment_result |-> r, error |-> ""]

\* "Calculate statistics"
FinalStats(stats) ==
    IF stats.adjustments # <<>>
    THEN [stats EXCEPT
            !.average_adjustment = <<SumSeq(stats.adjustments), Len(stats.adjustments)>>,
            !.max_adjustment = MaxSeq(stats.adjustments)]
    ELSE stats

\* alignment_stats['conflicts_resolved']
ConflictsResolved(anns, aligned, resolved) == Len(anns) - Len(resolved)

\* quantization_info['swing_amount']
SwingValue(amount, custom) ==
    IF amount # "CUSTOM" THEN swing_ratios(amount) ELSE custom

QuantizationInfo(bg, mode, amount, custom, tol, grid) ==
    [mode |-> mode, swing_amount |-> SwingValue(amount, custom),
     beat_interval |-> bg.beat_interval, bpm |-> bg.bpm,
     grid_points |-> Len(grid),
     tolerance_seconds |-> ToleranceSeconds(tol, bg.beat_interval)]

----------------------------------------------------------------------------
(* Inputs of a call *)

EventTimes == {0, 1, Milli, 300 * Milli}

EventTypes == {"don", "ka"}

\* the alignment_info an event keeps from an earlier alignment (1 ms to 0)
PriorInfo ==
    [original_time |-> Milli, adjustment |-> -Milli, grid_position |-> "quarter",
     quantize_mode |-> "1/4", confidence |-> <<1, 2>>]

\* the dicts a caller may put at position i of its list: well-formed ones, one
\* that an earlier call aligned (its alignment_info is filled in by Init), one
\* without a time and one without a type
InputDicts(i) ==
    {[time |-> t, type |-> y, id |-> i] : t \in EventTimes, y \in EventTypes}
    \cup {[time |-> 0, type |-> "ka", id |-> i, alignment_info |-> 0]}
    \cup {[type |-> "don", id |-> i]}
    \cup {[time |-> 0, id |-> i]}

\* the caller's heap for a list of input dicts: each earlier-aligned dict
\* refers to an alignment_info dict of its own
InputHeap(ds) ==
    LET prior(i) == {j \in 1..i : "alignment_info" \in DOMAIN ds[j]}
    IN  [dicts |-> [i \in 1..Len(ds) |->
                      IF "alignment_info" \in DOMAIN ds[i]
                      THEN [ds[i] EXCEPT !.alignment_info = Cardinality(prior(i))]
                      ELSE ds[i]],
         infos |-> [k \in 1..Cardinality(prior(Len(ds))) |-> PriorInfo]]

InputLists ==
    UNION {{ds \in [1..n -> UNION {InputDicts(i) : i \in 1..n}] :
                \A i \in 1..n : ds[i] \in InputDicts(i)} : n \in 0..MaxEvents}

BeatInterval == 600 * Milli

WellFormedBeatGrid ==
    [bpm |-> 100, beat_interval |-> BeatInterval,
     beats |-> <<0, BeatInterval>>, duration |-> 1000 * Milli]

BeatGrids ==
    {WellFormedBeatGrid,
     [WellFormedBeatGrid EXCEPT !.beat_interval = 0],
     [WellFormedBeatGrid EXCEPT !.beat_interval = -BeatInterval],
     [WellFormedBeatGrid EXCEPT !.beats = <<>>],
     [bpm |-> 100, beat_interval |-> BeatInterval, duration |-> 1000 * Milli],
     [bpm |-> 100, beat_interval |-> BeatInterval, beats |-> <<0, BeatInterval>>],
     [bpm |-> 100, beats |-> <<0, BeatInterval>>, duration |-> 1000 * Milli],
     [beat_interval |-> BeatInterval, beats |-> <<0, BeatInterval>>,
      duration |-> 1000 * Milli]}

CallModes == {"1/4", "1/8+swing", "off"}

CallTolerances == {0, 25}

----------------------------------------------------------------------------
(* The call as a state machine *)

Init ==
    /\ pc = "call"
    /\ \E ds \in InputLists :
          /\ dicts = InputHeap(ds).dicts
          /\ infos = InputHeap(ds).infos
          /\ annotations = [i \in 1..Len(ds) |-> i]
          /\ caller_events = Snapshot(dicts, infos, annotations)
    /\ beat_grid \in BeatGrids
    /\ quantize_mode \in CallModes
    /\ swing_amount = "MEDIUM"
    /\ custom_swing = 60
    /\ tolerance \in CallTolerances
    /\ preserve_off_beat \in BOOLEAN
    /\ first_measure_start = 0
    /\ quant_grid = <<>>
    /\ idx = 0
    /\ original_time = 0
    /\ alignment_result = <<>>
    /\ aligned_annotations = <<>>
    /\ alignment_stats = InitialStats
    /\ result = <<>>
    /\ call_no = 1
    /\ suspended = <<>>

args == <<annotations, beat_grid, quantize_mode, swing_amount, custom_swing,
          tolerance, preserve_off_beat, first_measure_start, caller_events,
          call_no, suspended>>

\* lines 68-97: read the beat info, generate the grid, set up the statistics
Begin ==
    /\ pc = "call"
    /\ LET g == GenerateQuantizationGrid(beat_grid, quantize_mode, swing_amount,
                                         custom_swing, first_measure_start)
           e == IF CallMissingKey(beat_grid) # "" THEN CallMissingKey(beat_grid)
                ELSE g.error
       IN  IF e # ""
           THEN /\ result' = ErrorResult(annotations, e)
                /\ pc' = "done"
                /\ UNCHANGED <<quant_grid, idx>>
           ELSE /\ quant_grid' = g.grid
                /\ idx' = 1
                /\ pc' = "loop"
                /\ UNCHANGED result
    /\ aligned_annotations' = <<>>
    /\ alignment_stats' = InitialStats
    /\ UNCHANGED <<args, dicts, infos, original_time, alignment_result>>

\* lines 99-145: one iteration of the loop over annotations
Iterate ==
    /\ pc = "loop"
    /\ idx <= Len(annotations)
    /\ LET s == AlignOne(dicts, infos, aligned_annotations, alignment_stats,
                         annotations[idx], quant_grid, tolerance,
                         beat_grid.beat_interval, quantize_mode, preserve_off_beat)
       IN  /\ dicts' = s.dicts
           /\ infos' = s.infos
           /\ aligned_annotations' = s.aligned
           /\ alignment_stats' = s.stats
           /\ original_time' = IF s.error = "time" THEN original_time ELSE s.original_time
           /\ alignment_result' = IF s.error # "" THEN alignment_result
                                  ELSE s.alignment_result
           /\ IF s.error # ""
              THEN /\ result' = ErrorResult(annotations, s.error)
                   /\ pc' = "done"
                   /\ UNCHANGED idx
              ELSE /\ idx' = idx + 1
                   /\ UNCHANGED <<pc, result>>
    /\ UNCHANGED <<args, quant_grid>>

\* lines 147-178: the statistics, the conflict resolver, the returned dictionary
Finish ==
    /\ pc = "loop"
    /\ idx > Len(annotations)
    /\ LET stats == FinalStats(alignment_stats)
           r == ResolveConflicts(dicts, infos, aligned_annotations)
       IN  /\ dicts' = r.dicts
           /\ infos' = r.infos
           /\ IF r.error # ""
              THEN /\ result' = ErrorResult(annotations, r.error)
                   /\ alignment_stats' = stats
              ELSE /\ alignment_stats' =
                        [stats EXCEPT !.conflicts_resolved =
                            ConflictsResolved(annotations, aligned_annotations, r.out)]
                   /\ result' =
                        [aligned_annotations |-> r.out,
                         alignment_stats |-> alignment_stats',
                         quantization_info |->
                            QuantizationInfo(beat_grid, quantize_mode, swing_amount,
                                             custom_swing, tolerance, quant_grid)]
    /\ pc' = "done"
    /\ UNCHANGED <<args, quant_grid, idx, original_time, alignment_result,
                   aligned_annotations>>

Next == Begin \/ Iterate \/ Finish

Spec == Init /\ [][Next]_vars

----------------------------------------------------------------------------
(* The Matcher applied on its own *)

MatchTimes == {0, 150 * Milli, 150 * Milli + 1, 300 * Milli, 450 * Milli, 900 * Milli}

MatchGridTimes == {0, 300 * Milli, 600 * Milli}

MatchStrengths == {0, 6, 10}

\* every grid of at most MaxGridLen points sorted by time, each point labelled
\* by its position
MatchGrids ==
    UNION {{[i \in 1..n |-> [time |-> g[i][1], type |-> SixteenthType(i - 1),
                            strength |-> g[i][2], beat_position |-> "subdivision"]] :
               g \in {h \in [1..n -> MatchGridTimes \X MatchStrengths] :
                         \A i \in 1..(n - 1) : h[i][1] <= h[i + 1][1]}} :
           n \in 0..MaxGridLen}

MatchTolerances == {0, 25, 50}

MatchIntervals == {BeatInterval, -BeatInterval}

InitMatch ==
    /\ pc = "match"
    /\ original_time \in MatchTimes
    /\ quant_grid \in MatchGrids
    /\ tolerance \in MatchTolerances
    /\ \E b \in MatchIntervals : beat_grid = [beat_interval |-> b]
    /\ alignment_result = <<>>
    /\ annotations = <<>>
    /\ quantize_mode = "1/16"
    /\ swing_amount = "MEDIUM"
    /\ custom_swing = 60
    /\ preserve_off_beat = TRUE
    /\ first_measure_start = 0
    /\ dicts = <<>>
    /\ infos = <<>>
    /\ caller_events = <<>>
    /\ idx = 0
    /\ aligned_annotations = <<>>
    /\ alignment_stats = InitialStats
    /\ result = <<>>
    /\ call_no = 1
    /\ suspended = <<>>

\* one call of _find_best_alignment
Match ==
    /\ pc = "match"
    /\ alignment_result' = FindBestAlignment(original_time, quant_grid, tolerance,
                                             beat_grid.beat_interval)
    /\ pc' = "matched"
    /\ UNCHANGED <<args, dicts, infos, quant_grid, idx, original_time,
                   aligned_annotations, alignment_stats, result>>

SpecMatch == InitMatch /\ [][Match]_vars

----------------------------------------------------------------------------
(* The conflict resolver applied on its own *)

ResolveTimes == {0, 1, Milli, 2 * Milli}

ResolveConfidences == {<<1, 2>>, <<1, 1>>}

\* the lists of at most MaxResolveLen emitted copies, each with an
\* alignment_info dict of its own
InitResolve ==
    /\ pc = "resolve"
    /\ \E n \in 0..MaxResolveLen :
         \E ev \in [1..n -> ResolveTimes \X EventTypes \X ResolveConfidences] :
            /\ dicts = [i \in 1..n |->
                          [time |-> ev[i][1], type |-> ev[i][2], id |-> i,
                           alignment_info |-> i]]
            /\ infos = [i \in 1..n |->
                          [original_time |-> ev[i][1], adjustment |-> 0,
                           grid_position |-> "quarter", quantize_mode |-> "1/4",
                           confidence |-> ev[i][3]]]
            /\ aligned_annotations = [i \in 1..n |-> i]
            /\ caller_events = Snapshot(dicts, infos, aligned_annotations)
    /\ annotations = <<>>
    /\ beat_grid = WellFormedBeatGrid
    /\ quantize_mode = "1/4"
    /\ swing_amount = "MEDIUM"
    /\ custom_swing = 60
    /\ tolerance = 25
    /\ preserve_off_beat = TRUE
    /\ first_measure_start = 0
    /\ quant_grid = <<>>
    /\ idx = 0
    /\ original_time = 0
    /\ alignment_result = <<>>
    /\ alignment_stats = InitialStats
    /\ result = <<>>
    /\ call_no = 1
    /\ suspended = <<>>

\* one call of _resolve_conflicts on aligned_annotations
Resolve ==
    /\ pc = "resolve"
    /\ LET r == ResolveConflicts(dicts, infos, aligned_annotations)
       IN  /\ dicts' = r.dicts
           /\ infos' = r.infos
           /\ result' = r.out
    /\ pc' = "resolved"
    /\ UNCHANGED <<args, quant_grid, idx, original_time, alignment_result,
                   aligned_annotations, alignment_stats>>

SpecResolve == InitResolve /\ [][Resolve]_vars

----------------------------------------------------------------------------
(* The grid generator applied on its own *)

\* longest beat list of a timeline the grid generator is applied to on its own
MaxBeats == 3

\* beat times: the detected beats of a timeline need not be beat_interval apart
GridBeatTimes == {0, 400 * Milli, BeatInterval, 2 * BeatInterval}

\* the ascending beat lists of at most MaxBeats beats
GridBeatLists ==
    {b \in UNION {[1..n -> GridBeatTimes] : n \in 0..MaxBeats} :
        \A i \in 1..(Len(b) - 1) : b[i] < b[i + 1]}

GridTimelines == {[WellFormedBeatGrid EXCEPT !.beats = b] : b \in GridBeatLists}

GridCustomSwings == {50, 75, 100}

\* first_measure_start: the detected measure start plus the audio offset
GridOrigins == {-300 * Milli, 0, 300 * Milli}

InitGrid ==
    /\ pc = "generate"
    /\ beat_grid \in GridTimelines
    /\ quantize_mode \in QuantizeMode
    /\ swing_amount \in SwingAmount
    /\ custom_swing \in GridCustomSwings
    /\ first_measure_start \in GridOrigins
    /\ quant_grid = <<>>
    /\ annotations = <<>>
    /\ tolerance = 25
    /\ preserve_off_beat = TRUE
    /\ dicts = <<>>
    /\ infos = <<>>
    /\ caller_events = <<>>
    /\ idx = 0
    /\ original_time = 0
    /\ alignment_result = <<>>
    /\ aligned_annotations = <<>>
    /\ alignment_stats = InitialStats
    /\ result = <<>>
    /\ call_no = 1
    /\ suspended = <<>>

\* one call of _generate_quantization_grid
Generate ==
    /\ pc = "generate"
    /\ quant_grid' = GenerateQuantizationGrid(beat_grid, quantize_mode, swing_amount,
                                              custom_swing, first_measure_start).grid
    /\ pc' = "generated"
    /\ UNCHANGED <<args, dicts, infos, idx, original_time, alignment_result,
                   aligned_annotations, alignment_stats, result>>

SpecGrid == InitGrid /\ [][Generate]_vars

----------------------------------------------------------------------------
(* test_auto_alignment *)

mock_beat_grid ==
    [bpm |-> 120, beat_interval |-> 500 * Milli, duration |-> 10000 * Milli,
     beats |-> [i \in 1..11 |-> (i - 1) * 500 * Milli]]

mock_annotations ==
    <<[id |-> 1, time |-> 50 * Milli, type |-> "don", duration |-> 100 * Milli],
      [id |-> 2, time |-> 480 * Milli, type |-> "ka", duration |-> 100 * Milli],
      [id |-> 3, time |-> 1020 * Milli, type |-> "don", duration |-> 100 * Milli],
      [id |-> 4, time |-> 1730 * Milli, type |-> "ka", duration |-> 100 * Milli],
      [id |-> 5, time |-> 2800 * Milli, type |-> "don", duration |-> 100 * Milli]>>

\* (quantize_mode, swing_amount)
test_modes ==
    {<<"1/4", "MEDIUM">>, <<"1/8", "MEDIUM">>, <<"1/16", "MEDIUM">>,
     <<"1/8+swing", "HEAVY">>}

\* the tolerance of the test, and the default of the signature
TestTolerances == {30, 25}

InitTest ==
    /\ pc = "call"
    /\ dicts = mock_annotations
    /\ infos = <<>>
    /\ annotations = [i \in 1..Len(mock_annotations) |-> i]
    /\ caller_events = Snapshot(dicts, infos, annotations)
    /\ beat_grid = mock_beat_grid
    /\ \E m \in test_modes : quantize_mode = m[1] /\ swing_amount = m[2]
    /\ custom_swing = 60
    /\ tolerance \in TestTolerances
    /\ preserve_off_beat \in BOOLEAN
    /\ first_measure_start = 0
    /\ quant_grid = <<>>
    /\ idx = 0
    /\ original_time = 0
    /\ alignment_result = <<>>
    /\ aligned_annotations = <<>>
    /\ alignment_stats = InitialStats
    /\ result = <<>>
    /\ call_no = 1
    /\ suspended = <<>>

SpecTest == InitTest /\ [][Next]_vars

----------------------------------------------------------------------------
(* A caller that aligns the list a first call returned *)

\* longest annotation list of a caller that aligns twice
MaxRefeedEvents == 3

RefeedTimes == {0, Milli, 200 * Milli}

RefeedModes == {"1/4", "off"}

RefeedLists ==
    UNION {[1..n -> RefeedTimes \X EventTypes] : n \in 0..MaxRefeedEvents}

InitRefeed ==
    /\ pc = "call"
    /\ \E ev \in RefeedLists :
          /\ dicts = [i \in 1..Len(ev) |-> [time |-> ev[i][1], type |-> ev[i][2], id |-> i]]
          /\ annotations = [i \in 1..Len(ev) |-> i]
    /\ infos = <<>>
    /\ caller_events = Snapshot(dicts, infos, annotations)
    /\ beat_grid = WellFormedBeatGrid
    /\ quantize_mode \in RefeedModes
    /\ swing_amount = "MEDIUM"
    /\ custom_swing = 60
    /\ tolerance \in CallTolerances
    /\ preserve_off_beat = TRUE
    /\ first_measure_start = 0
    /\ quant_grid = <<>>
    /\ idx = 0
    /\ original_time = 0
    /\ alignment_result = <<>>
    /\ aligned_annotations = <<>>
    /\ alignment_stats = InitialStats
    /\ result = <<>>
    /\ call_no = 1
    /\ suspended = <<>>

\* the caller passes result['aligned_annotations'] of the first call as the
\* annotations of a second call with the same other arguments
Refeed ==
    /\ pc = "done"
    /\ call_no = 1
    /\ "error" \notin DOMAIN result.alignment_stats
    /\ annotations' = result.aligned_annotations
    /\ caller_events' = Snapshot(dicts, infos, result.aligned_annotations)
    /\ call_no' = 2
    /\ pc' = "call"
    /\ quant_grid' = <<>>
    /\ idx' = 0
    /\ original_time' = 0
    /\ alignment_result' = <<>>
    /\ aligned_annotations' = <<>>
    /\ alignment_stats' = InitialStats
    /\ result' = <<>>
    /\ UNCHANGED <<beat_grid, quantize_mode, swing_amount, custom_swing, tolerance,
                   preserve_off_beat, first_measure_start, dicts, infos,
                   suspended>>

NextRefeed == Begin \/ Iterate \/ Finish \/ Refeed

SpecRefeed == InitRefeed /\ [][NextRefeed]_vars

----------------------------------------------------------------------------
(* Two calls in progress on one AutoAligner *)

\* the arguments and local variables of the call that is running: all the
\* state of a call but the objects of the heap
Frame ==
    [pc |-> pc, annotations |-> annotations, beat_grid |-> beat_grid,
     quantize_mode |-> quantize_mode, swing_amount |-> swing_amount,
     custom_swing |-> custom_swing, tolerance |-> tolerance,
     preserve_off_beat |-> preserve_off_beat,
     first_measure_start |-> first_measure_start,
     caller_events |-> caller_events, quant_grid |-> quant_grid, idx |-> idx,
     original_time |-> original_time, alignment_result |-> alignment_result,
     aligned_annotations |-> aligned_annotations,
     alignment_stats |-> alignment_stats, result |-> result]

\* an AutoAligner that kept the statistics on the instance: the call that
\* resumes finds the statistics the other call left
LocalsSharedStats(f) == [f EXCEPT !.alignment_stats = alignment_stats]

\* what a call finds when it resumes: its arguments and locals are names of
\* its own frame, and the instance holds nothing but the swing table
Locals(f) == f

MaxPairEvents == 2

PairTimes == {0, Milli}

PairModes == {"1/4", "off"}

\* the events of the two callers, 'don' and 'ka' in turn: both lists are drawn
\* from the same dicts
PairHeaps ==
    {[i \in 1..MaxPairEvents |->
        [time |-> ev[i], type |-> IF i % 2 = 1 THEN "don" ELSE "ka", id |-> i]] :
        ev \in [1..MaxPairEvents -> PairTimes]}

PairLists == UNION {[1..n -> 1..MaxPairEvents] : n \in 1..MaxPairEvents}

InitPair ==
    /\ pc = "call"
    /\ dicts \in PairHeaps
    /\ infos = <<>>
    /\ annotations = [i \in 1..MaxPairEvents |-> i]
    /\ caller_events = Snapshot(dicts, infos, annotations)
    /\ beat_grid = WellFormedBeatGrid
    /\ quantize_mode \in PairModes
    /\ swing_amount = "MEDIUM"
    /\ custom_swing = 60
    /\ tolerance = 0
    /\ preserve_off_beat = TRUE
    /\ first_measure_start = 0
    /\ quant_grid = <<>>
    /\ idx = 0
    /\ original_time = 0
    /\ alignment_result = <<>>
    /\ aligned_annotations = <<>>
    /\ alignment_stats = InitialStats
    /\ result = <<>>
    /\ call_no = 1
    /\ \E anns \in PairLists, mode \in PairModes :
          suspended = [Frame EXCEPT !.annotations = anns,
                                    !.caller_events = Snapshot(dicts, infos, anns),
                                    !.quantize_mode = mode,
                                    !.tolerance = 25]

\* the scheduler suspends the call that is running and resumes the other one
Switch ==
    /\ suspended # <<>>
    /\ LET f == Locals(suspended)
       IN  /\ pc' = f.pc
           /\ annotations' = f.annotations
           /\ beat_grid' = f.beat_grid
           /\ quantize_mode' = f.quantize_mode
           /\ swing_amount' = f.swing_amount
           /\ custom_swing' = f.custom_swing
           /\ tolerance' = f.tolerance
           /\ preserve_off_beat' = f.preserve_off_beat
           /\ first_measure_start' = f.first_measure_start
           /\ caller_events' = f.caller_events
           /\ quant_grid' = f.quant_grid
           /\ idx' = f.idx
           /\ original_time' = f.original_time
           /\ alignment_result' = f.alignment_result
           /\ aligned_annotations' = f.aligned_annotations
           /\ alignment_stats' = f.alignment_stats
           /\ result' = f.result
    /\ suspended' = Frame
    /\ UNCHANGED <<dicts, infos, call_no>>

NextPair == Begin \/ Iterate \/ Finish \/ Switch

SpecPair == InitPair /\ [][NextPair]_vars

\* the loop over annotations run from position k to its end
RECURSIVE AlignFrom(_, _, _, _, _, _, _, _, _, _, _)
AlignFrom(ds, is, anns, k, aligned, stats, grid, tol, beat_interval, mode, preserve) ==
    IF k > Len(anns)
    THEN [dicts |-> ds, infos |-> is, aligned |-> aligned, stats |-> stats,
          error |-> ""]
    ELSE LET s == AlignOne(ds, is, aligned, stats, anns[k], grid, tol,
                           beat_interval, mode, preserve)
         IN  IF s.error # ""
             THEN [dicts |-> s.dicts, infos |-> s.infos, aligned |-> s.aligned,
                   stats |-> s.stats, error |-> s.error]
             ELSE AlignFrom(s.dicts, s.infos, anns, k + 1, s.aligned, s.stats,
                            grid, tol, beat_interval, mode, preserve)

\* auto_align_annotations run from its first line to its return with nothing
\* else running: the heap it leaves and the dictionary it returns
AutoAlignAnnotations(ds, is, anns, bg, mode, amount, custom, tol, preserve, fms) ==
    LET g == GenerateQuantizationGrid(bg, mode, amount, custom, fms)
        e == IF CallMissingKey(bg) # "" THEN CallMissingKey(bg) ELSE g.error
    IN  IF e # ""
        THEN [dicts |-> ds, infos |-> is, result |-> ErrorResult(anns, e)]
        ELSE
          LET l == AlignFrom(ds, is, anns, 1, <<>>, InitialStats, g.grid, tol,
                             bg.beat_interval, mode, preserve)
          IN  IF l.error # ""
              THEN [dicts |-> l.dicts, infos |-> l.infos,
                    result |-> ErrorResult(anns, l.error)]
              ELSE
                LET stats == FinalStats(l.stats)
                    r == ResolveConflicts(l.dicts, l.infos, l.aligned)
                IN  IF r.error # ""
                    THEN [dicts |-> r.dicts, infos |-> r.infos,
                          result |-> ErrorResult(anns, r.error)]
                    ELSE [dicts |-> r.dicts, infos |-> r.infos,
                          result |->
                            [aligned_annotations |-> r.out,
                             alignment_stats |->
                                [stats EXCEPT !.conflicts_resolved =
                                    ConflictsResolved(anns, l.aligned, r.out)],
                             quantization_info |->
                                QuantizationInfo(bg, mode, amount, custom, tol,
                                                 g.grid)]]

----------------------------------------------------------------------------

(* convert_beatnet_to_annotations_then_score *)

\* longest list of BeatNet notes converted
MaxNotes == 2

\* the note times of test_conversion_pipeline
NoteTimes == {200 * Milli, 860 * Milli}

\* the notes BeatNet may hand over: with or without originalBeatIndex, and
\* one without a time and one without a type
BeatNetNotes ==
    {[time |-> t, type |-> y, originalBeatIndex |-> b] :
        t \in NoteTimes, y \in EventTypes, b \in {0, 1}}
    \cup {[time |-> t, type |-> y] : t \in NoteTimes, y \in EventTypes}
    \cup {[type |-> "don", originalBeatIndex |-> 0], [time |-> 200 * Milli]}

\* int(time.time()*1000) at two moments of the conversion
ClockMillis == {1000, 1001}

\* random.randint(100000, 999999): its two ends
RandomInts == {100000, 999999}

\* the annotation with no length at all
NoteAnnotationNoLength(note, now) ==
    [id |-> <<"beatnet",
              IF "originalBeatIndex" \in DOMAIN note THEN note.originalBeatIndex ELSE 0,
              now>>,
     time |-> note.time, type |-> note.type, duration |-> 0]

\* the annotation dict of step 1; its id is
\* f"beatnet-{note.get('originalBeatIndex', 0)}-{int(time.time()*1000)}"
NoteAnnotation(note, now) ==
    [id |-> <<"beatnet",
              IF "originalBeatIndex" \in DOMAIN note THEN note.originalBeatIndex ELSE 0,
              now>>,
     time |-> note.time, type |-> note.type, duration |-> 100 * Milli]

\* the score note of step 2; its id is
\* f"score-{int(time.time()*1000)}-{random.randint(100000, 999999)}"
ScoreNote(annotation, now, rnd) ==
    [id |-> <<"score", now, rnd>>, time |-> annotation.time,
     type |-> annotation.type, duration |-> annotation.duration]

\* beatnet_notes is kept in caller_events, the local annotations in
\* annotations, the local score in result
InitConvert ==
    /\ pc = "annotate"
    /\ caller_events \in UNION {[1..n -> BeatNetNotes] : n \in 0..MaxNotes}
    /\ annotations = <<>>
    /\ result = <<>>
    /\ idx = 1
    /\ beat_grid = <<>>
    /\ quantize_mode = "off"
    /\ swing_amount = "MEDIUM"
    /\ custom_swing = 60
    /\ tolerance = 25
    /\ preserve_off_beat = TRUE
    /\ first_measure_start = 0
    /\ dicts = <<>>
    /\ infos = <<>>
    /\ quant_grid = <<>>
    /\ original_time = 0
    /\ alignment_result = <<>>
    /\ aligned_annotations = <<>>
    /\ alignment_stats = InitialStats
    /\ call_no = 1
    /\ suspended = <<>>

\* one iteration of the loop of step 1; a note without 'time' or 'type'
\* raises KeyError
Annotate ==
    /\ pc = "annotate"
    /\ idx <= Len(caller_events)
    /\ IF {"time", "type"} \subseteq DOMAIN caller_events[idx]
       THEN /\ \E now \in ClockMillis :
                  annotations' = Append(annotations,
                                        NoteAnnotation(caller_events[idx], now))
            /\ idx' = idx + 1
            /\ UNCHANGED pc
       ELSE /\ pc' = "raised"
            /\ UNCHANGED <<annotations, idx>>
    /\ UNCHANGED <<caller_events, result, beat_grid, quantize_mode, swing_amount,
                   custom_swing, tolerance, preserve_off_beat, first_measure_start,
                   dicts, infos, quant_grid, original_time, alignment_result,
                   aligned_annotations, alignment_stats, call_no, suspended>>

\* the end of step 1
StartScore ==
    /\ pc = "annotate"
    /\ idx > Len(caller_events)
    /\ pc' = "score"
    /\ idx' = 1
    /\ UNCHANGED <<caller_events, annotations, result, beat_grid, quantize_mode,
                   swing_amount, custom_swing, tolerance, preserve_off_beat,
                   first_measure_start, dicts, infos, quant_grid, original_time,
                   alignment_result, aligned_annotations, alignment_stats, call_no,
                   suspended>>

\* one iteration of the loop of step 2
Score ==
    /\ pc = "score"
    /\ idx <= Len(annotations)
    /\ \E now \in ClockMillis, rnd \in RandomInts :
          result' = Append(result, ScoreNote(annotations[idx], now, rnd))
    /\ idx' = idx + 1
    /\ UNCHANGED <<pc, caller_events, annotations, beat_grid, quantize_mode,
                   swing_amount, custom_swing, tolerance, preserve_off_beat,
                   first_measure_start, dicts, infos, quant_grid, original_time,
                   alignment_result, aligned_annotations, alignment_stats, call_no,
                   suspended>>

\* return score
ReturnScore ==
    /\ pc = "score"
    /\ idx > Len(annotations)
    /\ pc' = "converted"
    /\ UNCHANGED <<caller_events, annotations, result, idx, beat_grid,
                   quantize_mode, swing_amount, custom_swing, tolerance,
                   preserve_off_beat, first_measure_start, dicts, infos, quant_grid,
                   original_time, alignment_result, aligned_annotations,
                   alignment_stats, call_no, suspended>>

NextConvert == Annotate \/ StartScore \/ Score \/ ReturnScore

SpecConvert == InitConvert /\ [][NextConvert]_vars

----------------------------------------------------------------------------

(* Properties *)

Succeeded == pc = "done" /\ "error" \notin DOMAIN result.alignment_stats

Failed == pc = "done" /\ "error" \in DOMAIN result.alignment_stats

\* the alignment_info dict of an annotation
InfoOf(ref) == infos[dicts[ref].alignment_info]

\* the annotations of the returned list
Returned == {result.aligned_annotations[k] : k \in 1..Len(result.aligned_annotations)}

\* whether the Conflict Resolver moved the annotation
Shifted(ref) == "conflict_resolved" \in DOMAIN InfoOf(ref)

\* C1: auto_align_annotations never mutates its input: at every point of a
\* call, whatever its outcome, the caller's list has the length and the order it
\* had, and each of its dicts has the time, the type and the attributes it had,
\* with no alignment_info added and no change to one it already had.
C1_InputNotMutated ==
    pc \in {"call", "loop", "done"} =>
        /\ Len(annotations) = Len(caller_events)
        /\ Snapshot(dicts, infos, annotations) = caller_events

\* a call that aligned two annotations of different types onto one grid point
\* and returned one of them moved by the Conflict Resolver
C1_Witness ==
    /\ Succeeded
    /\ alignment_stats.aligned_count = 2
    /\ \E ref \in Returned : Shifted(ref)

\* a beat_grid with every key whose beat interval is not positive or whose beat
\* list is empty
MalformedTimeline(bg) ==
    /\ {"bpm", "beat_interval", "beats", "duration"} \subseteq DOMAIN bg
    /\ (bg.beat_interval <= 0 \/ bg.beats = <<>>)

WellFormedTimeline(bg) ==
    /\ {"bpm", "beat_interval", "beats", "duration"} \subseteq DOMAIN bg
    /\ bg.beat_interval > 0
    /\ bg.beats # <<>>

WellFormedEvents ==
    \A k \in 1..Len(annotations) : {"time", "type"} \subseteq DOMAIN dicts[annotations[k]]

\* C2: with a malformed timeline (a beat interval that is zero or negative, or
\* an empty beat list) the call returns the error result: the caller's list
\* as it was and statistics that hold only the error.
C2_MalformedTimelineFails ==
    (pc = "done" /\ MalformedTimeline(beat_grid)) =>
        /\ Failed
        /\ result.aligned_annotations = annotations

\* C3: with a well-formed timeline and well-formed events the call never
\* returns the error result, however many events the Matcher does not align,
\* and every event is processed.
C3_MatchFailureNeverAborts ==
    (pc = "done" /\ WellFormedTimeline(beat_grid) /\ WellFormedEvents) =>
        /\ Succeeded
        /\ alignment_stats.total_processed = Len(annotations)

\* a successful call on an empty grid in which no event of two was aligned
C3_Witness ==
    /\ Succeeded
    /\ WellFormedTimeline(beat_grid)
    /\ quant_grid = <<>>
    /\ Len(annotations) = 2
    /\ alignment_stats.aligned_count = 0
    /\ alignment_stats.total_processed = 2

\* the ids of the annotations of a list, in order
Ids(refs) == [k \in 1..Len(refs) |-> dicts[refs[k]].id]

\* C4: the dispositions and the counters agree.  While the loop runs and after
\* it, the emitted list holds each input event at most once, in input order,
\* each as an aligned or as a preserved copy, and aligned_count +
\* preserved_count is its length; total_processed is the number of events
\* handled so far, and the number of input events after a successful call;
\* without preserve_off_beat no preserved copy is emitted or returned and
\* preserved_count and outside_tolerance_count stay 0; with it aligned_count +
\* preserved_count = total_processed.
C4_CountersConsistent ==
    (pc = "loop" \/ Succeeded) =>
        LET st == alignment_stats
            emitted == aligned_annotations
            preservedCopies == {k \in 1..Len(emitted) :
                                   InfoOf(emitted[k]).quantize_mode = "preserved"}
        IN  /\ st.aligned_count + st.preserved_count = Len(emitted)
            /\ st.preserved_count = Cardinality(preservedCopies)
            /\ \A j, k \in 1..Len(emitted) : j < k => Ids(emitted)[j] < Ids(emitted)[k]
            /\ st.total_processed = idx - 1
            /\ Succeeded => st.total_processed = Len(annotations)
            /\ Len(emitted) <= st.total_processed
            /\ ~preserve_off_beat =>
                  /\ st.preserved_count = 0
                  /\ st.outside_tolerance_count = 0
                  /\ Succeeded =>
                        \A ref \in Returned : InfoOf(ref).quantize_mode # "preserved"
            /\ preserve_off_beat => st.aligned_count + st.preserved_count = st.total_processed

\* a successful call that aligned one event and dropped the other
C4_Witness ==
    /\ Succeeded
    /\ ~preserve_off_beat
    /\ alignment_stats.total_processed = 2
    /\ alignment_stats.aligned_count = 1
    /\ Len(aligned_annotations) = 1

\* C5: conflicts_resolved is the number of events the loop emitted minus the
\* number of events the Conflict Resolver returned, with and without
\* preserve_off_beat (stated for the calls on a well-formed timeline and
\* well-formed events with a positive tolerance, where it already fails).
C5_ConflictsResolvedIsResolverDelta ==
    (Succeeded /\ WellFormedTimeline(beat_grid) /\ WellFormedEvents /\ tolerance > 0) =>
        alignment_stats.conflicts_resolved =
            Len(aligned_annotations) - Len(result.aligned_annotations)

\* the distance from t to the grid points nearest to it
MinDistance(grid, t) ==
    CHOOSE d \in {Abs(grid[k].time - t) : k \in 1..Len(grid)} :
        \A k \in 1..Len(grid) : d <= Abs(grid[k].time - t)

\* the first of the grid points nearest to t
FirstNearest(grid, t) ==
    CHOOSE k \in 1..Len(grid) :
        /\ Abs(grid[k].time - t) = MinDistance(grid, t)
        /\ \A j \in 1..(k - 1) : Abs(grid[j].time - t) > MinDistance(grid, t)

\* C6: the tolerance boundary of the Matcher.  With tolerance_seconds =
\* tolerance * beat_interval and a grid that is not empty, an event at exactly
\* tolerance_seconds from its nearest grid point is aligned, and one farther
\* than tolerance_seconds is not aligned, with the reason outside_tolerance
\* and that distance as closest_distance.
C6_ToleranceBoundary ==
    (pc = "matched" /\ Len(quant_grid) > 0) =>
        LET d == MinDistance(quant_grid, original_time)
            ts == (tolerance * beat_grid.beat_interval) \div 100
        IN  /\ d = ts => alignment_result.aligned
            /\ d > ts =>
                  /\ ~alignment_result.aligned
                  /\ alignment_result.reason = "outside_tolerance"
                  /\ alignment_result.closest_distance = d

\* an event aligned at exactly tolerance_seconds > 0 from its nearest point
C6_Witness ==
    /\ pc = "matched"
    /\ Len(quant_grid) > 0
    /\ tolerance * beat_grid.beat_interval > 0
    /\ MinDistance(quant_grid, original_time) = (tolerance * beat_grid.beat_interval) \div 100
    /\ alignment_result.aligned

\* C7: on a grid that is not empty the Matcher selects a grid point at the
\* least distance from the event and, of several such points, the one of the
\* smallest index; the new time, the adjustment, the grid label and the
\* strength that enters the confidence are those of that point, and the
\* distance reported for an event that is not aligned is that least distance.
C7_NearestPointFirstIndex ==
    (pc = "matched" /\ Len(quant_grid) > 0) =>
        LET d == MinDistance(quant_grid, original_time)
            p == quant_grid[FirstNearest(quant_grid, original_time)]
            ts == (tolerance * beat_grid.beat_interval) \div 100
            r == alignment_result
        IN  IF r.aligned
            THEN /\ r.new_time = p.time
                 /\ r.adjustment = p.time - original_time
                 /\ r.grid_position = p.type
                 /\ r.original_distance = d
                 /\ r.confidence =
                       (IF ts = 0 THEN NaN
                        ELSE <<70 * (ts - d) + 3 * p.strength * ts, 100 * ts>>)
            ELSE r.closest_distance = d

\* an event aligned to the first of two grid points of different times that
\* are both nearest to it
C7_Witness ==
    /\ pc = "matched"
    /\ alignment_result.aligned
    /\ \E j, k \in 1..Len(quant_grid) :
          /\ j < k
          /\ quant_grid[j].time # quant_grid[k].time
          /\ Abs(quant_grid[j].time - original_time) = MinDistance(quant_grid, original_time)
          /\ Abs(quant_grid[k].time - original_time) = MinDistance(quant_grid, original_time)
          /\ alignment_result.new_time = quant_grid[j].time

\* C8: with tolerance > 0 and beat_interval > 0 (the grid strengths are in
\* [0, 1]) every Aligned result of the Matcher has 0 <= confidence <= 1, and so
\* has the alignment_info of every event the call returns.
C8_ConfidenceInUnitInterval ==
    (pc \in {"loop", "done"} /\ tolerance > 0 /\ "beat_interval" \in DOMAIN beat_grid
        /\ beat_grid.beat_interval > 0) =>
        /\ \A k \in 1..Len(quant_grid) :
              0 <= quant_grid[k].strength /\ quant_grid[k].strength <= 10
        /\ (DOMAIN alignment_result # {} /\ alignment_result.aligned) =>
              ConfInUnit(alignment_result.confidence)
        /\ Succeeded => \A ref \in Returned : ConfInUnit(InfoOf(ref).confidence)

\* a successful call whose last event was aligned with a confidence strictly
\* between 0 and 1, and which returned an aligned copy
C8_Witness ==
    /\ Succeeded
    /\ tolerance > 0
    /\ beat_grid.beat_interval > 0
    /\ DOMAIN alignment_result # {}
    /\ alignment_result.aligned
    /\ 0 < alignment_result.confidence[1]
    /\ alignment_result.confidence[1] < alignment_result.confidence[2]
    /\ \E ref \in Returned : InfoOf(ref).quantize_mode # "preserved"

\* the time the caller's event had, for the copy ref made of it
InputTime(ref) == caller_events[dicts[ref].id].dict.time

\* C9 as claimed: for every event of the returned list, aligned, preserved or
\* shifted by the Conflict Resolver, adjustment is the event's final time minus
\* original_time, and original_time is the time of the input event (stated for
\* the calls on a well-formed timeline and well-formed events with a positive
\* tolerance, where it already fails).
C9_AdjustmentIsFinalDelta ==
    (Succeeded /\ WellFormedTimeline(beat_grid) /\ WellFormedEvents /\ tolerance > 0) =>
        \A ref \in Returned :
            /\ InfoOf(ref).adjustment = dicts[ref].time - InfoOf(ref).original_time
            /\ InfoOf(ref).original_time = InputTime(ref)

\* C9 as amended: original_time is the time of the input event; for an event
\* the Conflict Resolver did not shift, adjustment is the final time minus
\* original_time; for an event it shifted, adjustment is still the Matcher's,
\* and the final time is original_time + adjustment + k ms for a position k >= 1
\* of the event in its collision group.
C9_AdjustmentIsMatcherDelta ==
    Succeeded =>
        \A ref \in Returned :
            /\ InfoOf(ref).original_time = InputTime(ref)
            /\ IF Shifted(ref)
               THEN \E k \in 1..(Len(annotations) - 1) :
                       dicts[ref].time =
                          InfoOf(ref).original_time + InfoOf(ref).adjustment + k * Milli
               ELSE InfoOf(ref).adjustment = dicts[ref].time - InfoOf(ref).original_time

\* a returned event the Matcher moved and the Conflict Resolver then shifted
C9_Witness ==
    /\ Succeeded
    /\ \E ref \in Returned : Shifted(ref) /\ InfoOf(ref).adjustment # 0

\* C10: after _resolve_conflicts no two events of different types in the
\* returned list have the same time at microsecond rounding, whichever time
\* groups of the input they came from.
C10_NoTwoKindsAtOneTime ==
    pc = "resolved" =>
        \A j, k \in 1..Len(result) :
            (j < k /\ dicts[result[j]].type # dicts[result[k]].type) =>
                Round6(dicts[result[j]].time) # Round6(dicts[result[k]].time)

----------------------------------------------------------------------------
(* Properties of the conflict resolver's groups *)

\* the list _resolve_conflicts returned
Resolved == IF pc = "resolved" THEN result ELSE result.aligned_annotations

\* the positions of the resolver's input list whose time has the time key of
\* position k
TimeGroup(k) ==
    {j \in 1..Len(aligned_annotations) :
        Round6(dicts[aligned_annotations[j]].time)
            = Round6(dicts[aligned_annotations[k]].time)}

SameKind(g) ==
    \A i, j \in g : dicts[aligned_annotations[i]].type = dicts[aligned_annotations[j]].type

\* the confidence of position j of the resolver's input list
ConfAt(j) == InfoOf(aligned_annotations[j]).confidence

\* confidence a is a number, and b is nan or a smaller number
Exceeds(a, b) == ~IsNaN(a) /\ (IsNaN(b) \/ ConfGt(a, b))

\* C11: for every group of two or more events of the resolver's input that
\* round to the same microsecond and all have the same kind, exactly one event
\* of the group is in the resolver's output; no event of the group has a higher
\* confidence than it, and every event of the group before it has a lower one
\* (stated for the resolver as auto_align_annotations applies it, on a
\* well-formed timeline and well-formed events, where it already fails).
C11_SameKindKeepsHighest ==
    (Succeeded /\ WellFormedTimeline(beat_grid) /\ WellFormedEvents) =>
        \A k \in 1..Len(aligned_annotations) :
            LET g == TimeGroup(k)
                kept == {j \in g : \E m \in 1..Len(Resolved) :
                                      Resolved[m] = aligned_annotations[j]}
            IN  (Cardinality(g) >= 2 /\ SameKind(g)) =>
                    \E j \in g :
                        /\ kept = {j}
                        /\ \A i \in g : ~Exceeds(ConfAt(i), ConfAt(j))
                        /\ \A i \in g : i < j => Exceeds(ConfAt(j), ConfAt(i))

MixedKind(g) ==
    \E i, j \in g : dicts[aligned_annotations[i]].type # dicts[aligned_annotations[j]].type

\* the positions of the resolver's output that hold position j of its input,
\* or a copy of it
OutputsOf(j) ==
    {m \in 1..Len(Resolved) : dicts[Resolved[m]].id = dicts[aligned_annotations[j]].id}

\* the number of events of the group before position j
RankIn(g, j) == Cardinality({i \in g : i < j})

----------------------------------------------------------------------------
(* Properties of the per-annotation loop *)

\* C13: with preserve_off_beat and the mode "off", the returned list has as
\* many events as the input list, and every input event is returned at its
\* original time with every attribute it had, alignment_info being the only
\* key added (stated for the calls on a well-formed timeline and well-formed
\* events, where it already fails).
C13_OffPreservesEveryEvent ==
    (Succeeded /\ quantize_mode = "off" /\ preserve_off_beat
        /\ WellFormedTimeline(beat_grid) /\ WellFormedEvents) =>
        /\ Len(result.aligned_annotations) = Len(annotations)
        /\ \A k \in 1..Len(annotations) :
              \E ref \in Returned :
                 /\ dicts[ref].id = k
                 /\ dicts[ref].time = dicts[annotations[k]].time
                 /\ DOMAIN dicts[ref] = DOMAIN dicts[annotations[k]] \cup {"alignment_info"}
                 /\ \A f \in DOMAIN dicts[annotations[k]] \ {"alignment_info"} :
                       dicts[ref][f] = dicts[annotations[k]][f]

\* C14: the preserved copies.  While the loop runs and after a successful
\* call, every copy the loop emitted as preserved was emitted under
\* preserve_off_beat, has the time of its input event, confidence 1.0,
\* grid_position "off_beat", adjustment 0 and the input time as original_time,
\* and its reason is empty_grid exactly when the grid is empty; an event the
\* Matcher has just reported as not aligned under preserve_off_beat is the
\* last copy emitted; preserved_count is the number of preserved copies, while
\* outside_tolerance_count and the length of closest_distances are the number
\* of those whose reason is outside_tolerance, the distance recorded last
\* being the Matcher's closest_distance.
C14_PreservedCopy ==
    (pc = "loop" \/ Succeeded) =>
        LET st == alignment_stats
            emitted == aligned_annotations
            preserved == {k \in 1..Len(emitted) :
                             InfoOf(emitted[k]).quantize_mode = "preserved"}
            outside == {k \in preserved :
                           InfoOf(emitted[k]).reason = "outside_tolerance"}
            r == alignment_result
        IN  /\ \A k \in preserved :
                  /\ preserve_off_beat
                  /\ dicts[emitted[k]].time = InputTime(emitted[k])
                  /\ InfoOf(emitted[k]).confidence = <<1, 1>>
                  /\ InfoOf(emitted[k]).grid_position = "off_beat"
                  /\ InfoOf(emitted[k]).adjustment = 0
                  /\ InfoOf(emitted[k]).original_time = InputTime(emitted[k])
                  /\ InfoOf(emitted[k]).reason \in {"outside_tolerance", "empty_grid"}
                  /\ InfoOf(emitted[k]).reason = "empty_grid" <=> quant_grid = <<>>
            /\ st.preserved_count = Cardinality(preserved)
            /\ st.outside_tolerance_count = Cardinality(outside)
            /\ Len(st.closest_distances) = Cardinality(outside)
            /\ (idx > 1 /\ preserve_off_beat /\ ~r.aligned) =>
                  /\ Len(emitted) \in preserved
                  /\ dicts[emitted[Len(emitted)]].id = idx - 1
                  /\ InfoOf(emitted[Len(emitted)]).reason = r.reason
                  /\ r.reason = "outside_tolerance" =>
                        st.closest_distances[Len(st.closest_distances)] = r.closest_distance

\* a successful call that aligned one event and preserved the other, which
\* was outside the tolerance, and recorded its distance
C14_Witness ==
    /\ Succeeded
    /\ preserve_off_beat
    /\ alignment_stats.aligned_count = 1
    /\ alignment_stats.preserved_count = 1
    /\ alignment_stats.outside_tolerance_count = 1
    /\ Len(alignment_stats.closest_distances) = 1
    /\ alignment_stats.closest_distances[1] > 0

----------------------------------------------------------------------------
(* Properties of a second alignment *)

\* the number of events of a list with time t and kind y
CountIn(refs, t, y) ==
    Cardinality({k \in 1..Len(refs) : dicts[refs[k]].time = t /\ dicts[refs[k]].type = y})

\* C15: a second call of auto_align_annotations on the list the first call
\* returned, with the same timeline, mode, swing, tolerance and measure origin
\* and with preserve_off_beat, returns as many events as it was given, and as
\* many events of each time and kind.
C15_RealignmentKeepsTimes ==
    (pc = "done" /\ call_no = 2 /\ "error" \notin DOMAIN result.alignment_stats) =>
        /\ Len(result.aligned_annotations) = Len(annotations)
        /\ \A t \in {dicts[ref].time : ref \in Returned}, y \in EventTypes :
              CountIn(result.aligned_annotations, t, y) = CountIn(annotations, t, y)

----------------------------------------------------------------------------
(* Properties of the Matcher on a grid point *)

\* C16: an event whose time is exactly the time of a grid point stays put.
\* For a positive beat interval and every tolerance >= 0, 0 included, the
\* Matcher returns aligned with new_time the event's time and adjustment 0.
C16_OnGridStaysPut ==
    (pc = "matched" /\ beat_grid.beat_interval > 0 /\ tolerance >= 0
        /\ \E k \in 1..Len(quant_grid) : quant_grid[k].time = original_time) =>
        /\ alignment_result.aligned
        /\ alignment_result.new_time = original_time
        /\ alignment_result.adjustment = 0

\* an event on the second point of a grid aligned with tolerance 0
C16_Witness ==
    /\ pc = "matched"
    /\ tolerance = 0
    /\ beat_grid.beat_interval > 0
    /\ Len(quant_grid) >= 2
    /\ quant_grid[1].time < original_time
    /\ quant_grid[2].time = original_time
    /\ alignment_result.aligned
    /\ alignment_result.new_time = original_time

----------------------------------------------------------------------------
(* Properties of the quantization grid *)

\* C17: for every mode, swing amount, custom swing, measure origin and
\* timeline, the list _generate_quantization_grid returns is in non-decreasing
\* order of time and holds no point later than the timeline's duration.
C17_GridSortedWithinDuration ==
    pc = "generated" =>
        /\ \A k \in 1..(Len(quant_grid) - 1) : quant_grid[k].time <= quant_grid[k + 1].time
        /\ \A k \in 1..Len(quant_grid) : quant_grid[k].time <= beat_grid.duration

\* a sixteenth grid in which a beat is followed by a subdivision of the beat
\* before it, and from which a point later than the duration was left out
C17_Witness ==
    /\ pc = "generated"
    /\ quantize_mode = "1/16"
    /\ Len(beat_grid.beats) = 2
    /\ first_measure_start = 0
    /\ Len(quant_grid) = 7
    /\ \E k \in 1..(Len(quant_grid) - 1) :
          /\ quant_grid[k].type = "sixteenth_0"
          /\ quant_grid[k + 1].type = "sixteenth_2"
          /\ quant_grid[k].time < quant_grid[k + 1].time

\* C18: no grid point has a negative time, for every mode and every measure
\* origin, a negative one included.
C18_NoNegativeGridTime ==
    pc = "generated" => \A k \in 1..Len(quant_grid) : quant_grid[k].time >= 0

----------------------------------------------------------------------------
(* Properties of the mode "off" *)

\* C19: in the mode "off" the generated grid is empty; on an empty grid the
\* Matcher's result is not aligned with the reason empty_grid, whatever the
\* event time and the tolerance; so a call in the mode "off" has aligned_count
\* 0 and every copy its loop emits has the time of its input event.
C19_OffModeAlignsNothing ==
    pc \in {"loop", "done"} =>
        /\ quantize_mode = "off" => quant_grid = <<>>
        /\ (quant_grid = <<>> /\ DOMAIN alignment_result # {}) =>
              /\ ~alignment_result.aligned
              /\ alignment_result.reason = "empty_grid"
        /\ quantize_mode = "off" =>
              /\ alignment_stats.aligned_count = 0
              /\ \A k \in 1..Len(aligned_annotations) :
                    /\ dicts[aligned_annotations[k]].time = InputTime(aligned_annotations[k])
                    /\ InfoOf(aligned_annotations[k]).reason = "empty_grid"

\* a successful call in the mode "off", with a positive tolerance, on two
\* events of which one is at the time of a beat: both were preserved
C19_Witness ==
    /\ Succeeded
    /\ quantize_mode = "off"
    /\ tolerance > 0
    /\ WellFormedTimeline(beat_grid)
    /\ Len(aligned_annotations) = 2
    /\ \E k \in 1..2 : dicts[aligned_annotations[k]].time = beat_grid.beats[1]
    /\ alignment_stats.aligned_count = 0
    /\ alignment_stats.preserved_count = 2
    /\ alignment_result.reason = "empty_grid"

----------------------------------------------------------------------------
(* The reference scenario *)

\* C20: with the beats 0.0, 0.5, 1.0, ... of a beat interval of 0.5 s and the
\* tolerance 0.3 (0.15 s): in the mode 1/4 the event at 0.05 is returned at 0.0
\* with adjustment -0.05; in the mode 1/16 the event at 1.73 is returned at
\* 1.75 with adjustment +0.02; in the mode 1/4 the event at 2.8 is not
\* aligned, with the reason outside_tolerance and the distance 0.2, and it is
\* returned at 2.8 under preserve_off_beat (and not returned without it).
C20_ReferenceScenario ==
    (Succeeded /\ beat_grid = mock_beat_grid /\ tolerance = 30) =>
        /\ quantize_mode = "1/4" =>
              /\ \E ref \in Returned :
                    /\ dicts[ref].id = 1
                    /\ dicts[ref].time = 0
                    /\ InfoOf(ref).original_time = 50 * Milli
                    /\ InfoOf(ref).adjustment = -50 * Milli
                    /\ InfoOf(ref).grid_position = "quarter"
              /\ ~alignment_result.aligned
              /\ alignment_result.reason = "outside_tolerance"
              /\ alignment_result.closest_distance = 200 * Milli
              /\ IF preserve_off_beat
                 THEN \E ref \in Returned :
                         /\ dicts[ref].id = 5
                         /\ dicts[ref].time = 2800 * Milli
                         /\ InfoOf(ref).reason = "outside_tolerance"
                         /\ InfoOf(ref).adjustment = 0
                 ELSE \A ref \in Returned : dicts[ref].id # 5
        /\ quantize_mode = "1/16" =>
              \E ref \in Returned :
                 /\ dicts[ref].id = 4
                 /\ dicts[ref].time = 1750 * Milli
                 /\ InfoOf(ref).original_time = 1730 * Milli
                 /\ InfoOf(ref).adjustment = 20 * Milli

\* the test's call in the mode 1/4 returned: three events aligned, the events
\* at 1.73 and 2.8 preserved
C20_Witness ==
    /\ Succeeded
    /\ beat_grid = mock_beat_grid
    /\ tolerance = 30
    /\ quantize_mode = "1/4"
    /\ preserve_off_beat
    /\ alignment_stats.aligned_count = 3
    /\ alignment_stats.preserved_count = 2
    /\ Len(result.aligned_annotations) = 5

----------------------------------------------------------------------------
(* Calls in progress at the same time *)

\* what a caller reads in a returned event, whatever the address of its dict
EventValue(ds, is, ref) ==
    [fields |-> [k \in (DOMAIN ds[ref]) \ {"alignment_info"} |-> ds[ref][k]],
     info |-> IF "alignment_info" \in DOMAIN ds[ref]
              THEN <<is[ds[ref].alignment_info]>> ELSE <<>>]

\* what a caller reads in a returned dictionary
ResultValue(ds, is, res) ==
    [aligned_annotations |->
        [k \in 1..Len(res.aligned_annotations) |->
            EventValue(ds, is, res.aligned_annotations[k])],
     alignment_stats |-> res.alignment_stats,
     quantization_info |-> res.quantization_info]

\* what the call of frame f returns when it runs alone on the events its
\* caller handed over
RunAlone(f) ==
    LET ds0 == [k \in 1..Len(f.caller_events) |-> f.caller_events[k].dict]
        a == AutoAlignAnnotations(ds0, <<>>, [k \in 1..Len(ds0) |-> k],
                                  f.beat_grid, f.quantize_mode, f.swing_amount,
                                  f.custom_swing, f.tolerance, f.preserve_off_beat,
                                  f.first_measure_start)
    IN  ResultValue(a.dicts, a.infos, a.result)

\* the calls in progress: the running one and the suspended one
Calls == {Frame} \cup (IF suspended = <<>> THEN {} ELSE {suspended})

\* C21: two calls of auto_align_annotations on one AutoAligner, interleaved in
\* any order, each return what they return when they run alone on their own
\* arguments: the events, the statistics and the quantization info are equal.
C21_InterleavedCallsIndependent ==
    \A f \in Calls :
        f.pc = "done" => ResultValue(dicts, infos, f.result) = RunAlone(f)

\* both calls have returned, and the second allocated a returned event between
\* two returned events of the first: the two loops were interleaved
C21_Witness ==
    /\ pc = "done"
    /\ suspended # <<>>
    /\ suspended.pc = "done"
    /\ \E a, b \in 1..Len(result.aligned_annotations) :
       \E c \in 1..Len(suspended.result.aligned_annotations) :
          /\ result.aligned_annotations[a] < suspended.result.aligned_annotations[c]
          /\ suspended.result.aligned_annotations[c] < result.aligned_annotations[b]
          /\ result.aligned_annotations[a] > MaxPairEvents

----------------------------------------------------------------------------
(* The points of a generated grid *)

Generated == pc = "generated"

\* the positions of the beats that, shifted by first_measure_start, are not
\* after the end of the timeline
ShiftedBeats ==
    {k \in 1..Len(beat_grid.beats) :
        beat_grid.beats[k] + first_measure_start <= beat_grid.duration}

ShiftedBeat(k) == beat_grid.beats[k] + first_measure_start

\* subdivision i of S of the beat at position k, undelayed
StraightTime(k, i, S) == ShiftedBeat(k) + (i * beat_grid.beat_interval) \div S

\* (interval / S) * (ratio - 0.5) * 2 for a ratio in percent
SwingDelay(S, ratio) == ((beat_grid.beat_interval \div S) * (2 * ratio - 100)) \div 100

SwingTime(k, i, S, ratio) ==
    IF i % 2 = 0 THEN StraightTime(k, i, S)
    ELSE StraightTime(k, i, S) + SwingDelay(S, ratio)

SwingModes == {"1/4+swing", "1/8+swing", "1/16+swing"}

\* the times of the points of a grid, in the order of the grid
TimesOf(grid) == [k \in 1..Len(grid) |-> grid[k].time]

\* C22: in a swing mode with S subdivisions and a swing ratio in [0.5, 1.0],
\* the grid holds, for each shifted beat b inside the timeline and each i < S
\* whose time is inside the timeline, one point: at b + i*interval/S for even
\* i, delayed by (interval/S)*(ratio - 0.5)*2 for odd i, of strength 1.0 at
\* i = 0 and 0.7 otherwise, and nothing else. An odd point is not before its
\* straight position and not after the next even position; at ratio 0.5 the
\* times of Eighth-swing and Sixteenth-swing are those of Eighth and Sixteenth.
C22_SwingPositions ==
    (Generated /\ quantize_mode \in SwingModes) =>
        LET S == SwingSubdivision(quantize_mode)
            ratio == SwingValue(swing_amount, custom_swing)
            E == {e \in ShiftedBeats \X (0..(S - 1)) :
                       SwingTime(e[1], e[2], S, ratio) <= beat_grid.duration}
            IsPoint(p, e) ==
                /\ p.time = SwingTime(e[1], e[2], S, ratio)
                /\ p.type = SwingType(quantize_mode, e[2])
                /\ p.strength = (IF e[2] = 0 THEN 10 ELSE 7)
        IN  /\ (50 <= ratio /\ ratio <= 100)
            /\ Len(quant_grid) = Cardinality(E)
            /\ \A e \in E : \E j \in 1..Len(quant_grid) : IsPoint(quant_grid[j], e)
            /\ \A j \in 1..Len(quant_grid) : \E e \in E : IsPoint(quant_grid[j], e)
            /\ \A e \in E :
                  e[2] % 2 = 1 =>
                     /\ SwingTime(e[1], e[2], S, ratio) >= StraightTime(e[1], e[2], S)
                     /\ SwingTime(e[1], e[2], S, ratio) <= StraightTime(e[1], e[2] + 1, S)
            /\ (ratio = 50 /\ quantize_mode # "1/4+swing") =>
                  TimesOf(quant_grid) =
                     TimesOf(GenerateQuantizationGrid(
                                beat_grid,
                                IF quantize_mode = "1/8+swing" THEN "1/8" ELSE "1/16",
                                swing_amount, custom_swing, first_measure_start).grid)

\* a heavy sixteenth swing whose grid has delayed points of two beats, the
\* last subdivision of a beat among them
C22_Witness ==
    /\ Generated
    /\ quantize_mode = "1/16+swing"
    /\ swing_amount = "HEAVY"
    /\ Cardinality(ShiftedBeats) >= 2
    /\ \E j \in 1..Len(quant_grid) :
          /\ quant_grid[j].type = "1/16+swing_3"
          /\ quant_grid[j].time = ShiftedBeat(1) + 3 * (BeatInterval \div 4) + 51 * Milli

----------------------------------------------------------------------------
(* The strength of a grid point *)

\* the grid with the strength of its k-th point replaced by s[k]
WithStrengths(grid, s) == [k \in 1..Len(grid) |-> [grid[k] EXCEPT !.strength = s[k]]]

\* C23: the strength of a grid point is never a filter: on two grids with the
\* same point times and any strengths, the Matcher takes the same decision for
\* a time, with the same new time, adjustment, grid position and closest
\* distance; nothing but the confidence may differ.
C23_StrengthIsNoFilter ==
    pc = "matched" =>
        \A s \in [1..Len(quant_grid) -> MatchStrengths] :
            LET r == alignment_result
                q == FindBestAlignment(original_time, WithStrengths(quant_grid, s),
                                       tolerance, beat_grid.beat_interval)
            IN  /\ q.aligned = r.aligned
                /\ r.aligned =>
                     /\ q.new_time = r.new_time
                     /\ q.adjustment = r.adjustment
                     /\ q.grid_position = r.grid_position
                     /\ q.original_distance = r.original_distance
                /\ ~r.aligned => q = r

\* a time is aligned to a point that is weaker than another point of the
\* grid, and with other strengths the same match has another confidence
C23_Witness ==
    /\ pc = "matched"
    /\ alignment_result.aligned
    /\ \E j, k \in 1..Len(quant_grid) :
          /\ quant_grid[j].time = alignment_result.new_time
          /\ quant_grid[j].strength = 6
          /\ quant_grid[k].time # alignment_result.new_time
          /\ quant_grid[k].strength = 10
    /\ \E s \in [1..Len(quant_grid) -> MatchStrengths] :
          FindBestAlignment(original_time, WithStrengths(quant_grid, s), tolerance,
                            beat_grid.beat_interval).confidence
             # alignment_result.confidence

----------------------------------------------------------------------------
(* The straight grids *)

StraightModes == {"1/4", "1/8", "1/16", "1/8T"}

\* the number of subdivisions of a beat in a straight mode
StraightSubdivision(mode) ==
    CASE mode = "1/4" -> 1
      [] mode = "1/8" -> 2
      [] mode = "1/16" -> 4
      [] mode = "1/8T" -> 3

\* the strength the claim gives subdivision i, in tenths
StraightStrength(mode, i) ==
    IF i = 0 THEN 10
    ELSE CASE mode = "1/8" -> 7
           [] mode = "1/16" -> IF i = 2 THEN 8 ELSE 6
           [] mode = "1/8T" -> 6

StraightType(mode, i) ==
    CASE mode = "1/4" -> "quarter"
      [] mode = "1/8" -> IF i = 0 THEN "eighth_on" ELSE "eighth_off"
      [] mode = "1/16" -> SixteenthType(i)
      [] mode = "1/8T" -> TripletType(i)

\* C24: in the modes Quarter, Eighth, Sixteenth and Triplet-eighth, with
\* S = 1, 2, 4, 3, the grid has one point for each shifted beat b <= duration
\* and each i < S with b + i*interval/S <= duration, at that time, and no
\* other point; the strength is 1.0 at i = 0, 0.7 at the Eighth off-beat, 0.8
\* at i = 2 and 0.6 at i = 1, 3 of Sixteenth, 0.6 at i = 1, 2 of Triplet-eighth.
C24_StraightGridPoints ==
    (Generated /\ quantize_mode \in StraightModes) =>
        LET S == StraightSubdivision(quantize_mode)
            E == {e \in ShiftedBeats \X (0..(S - 1)) :
                       StraightTime(e[1], e[2], S) <= beat_grid.duration}
            IsPoint(p, e) ==
                /\ p.time = StraightTime(e[1], e[2], S)
                /\ p.strength = StraightStrength(quantize_mode, e[2])
                /\ p.type = StraightType(quantize_mode, e[2])
        IN  /\ Len(quant_grid) = Cardinality(E)
            /\ \A e \in E : \E j \in 1..Len(quant_grid) : IsPoint(quant_grid[j], e)
            /\ \A j \in 1..Len(quant_grid) : \E e \in E : IsPoint(quant_grid[j], e)

\* a sixteenth grid on a shifted timeline: the third subdivision of a beat is
\* in the grid and the fourth one falls after the end of the timeline
C24_Witness ==
    /\ Generated
    /\ quantize_mode = "1/16"
    /\ first_measure_start = 300 * Milli
    /\ \E k \in ShiftedBeats :
          /\ StraightTime(k, 2, 4) <= beat_grid.duration
          /\ StraightTime(k, 3, 4) > beat_grid.duration
          /\ \E j \in 1..Len(quant_grid) :
                /\ quant_grid[j].time = StraightTime(k, 2, 4)
                /\ quant_grid[j].strength = 8

----------------------------------------------------------------------------
(* Input and output position by position *)

\* no two events the loop emitted round to the same microsecond
EmittedApart ==
    \A j, k \in 1..Len(aligned_annotations) :
        j < k => Round6(dicts[aligned_annotations[j]].time)
                    # Round6(dicts[aligned_annotations[k]].time)

\* C25: with preserve_off_beat true, when no two emitted events round to the
\* same microsecond, the returned list has the length of the input list and
\* its i-th event is the copy made of the i-th input event: the same id, the
\* same kind, and original_time equal to the time of the i-th input event.
C25_PositionalCorrespondence ==
    (Succeeded /\ preserve_off_beat /\ EmittedApart) =>
        /\ Len(result.aligned_annotations) = Len(annotations)
        /\ \A i \in 1..Len(annotations) :
              LET out == dicts[result.aligned_annotations[i]]
                  in == caller_events[i].dict
              IN  /\ result.aligned_annotations[i] = aligned_annotations[i]
                  /\ result.aligned_annotations[i] # annotations[i]
                  /\ out.id = in.id
                  /\ ("type" \in DOMAIN out) = ("type" \in DOMAIN in)
                  /\ "type" \in DOMAIN in => out.type = in.type
                  /\ InfoOf(result.aligned_annotations[i]).original_time = in.time

\* two events given later one first: the first is preserved where it was, the
\* second is aligned, and they are returned in the order of the input
C25_Witness ==
    /\ Succeeded
    /\ preserve_off_beat
    /\ EmittedApart
    /\ Len(annotations) = 2
    /\ dicts[result.aligned_annotations[1]].time > dicts[result.aligned_annotations[2]].time
    /\ InfoOf(result.aligned_annotations[1]).quantize_mode = "preserved"
    /\ InfoOf(result.aligned_annotations[2]).quantize_mode = "1/4"
    /\ InfoOf(result.aligned_annotations[2]).adjustment # 0

----------------------------------------------------------------------------
(* The BeatNet conversion *)

\* C26: convert_beatnet_to_annotations_then_score returns a score list of the
\* length and in the order of the BeatNet notes: the i-th score note has the
\* time and the type of the i-th note, a duration of exactly 0.1 and an id.
C26_ConversionKeepsNotes ==
    pc = "converted" =>
        /\ Len(result) = Len(caller_events)
        /\ \A i \in 1..Len(caller_events) :
              /\ result[i].time = caller_events[i].time
              /\ result[i].type = caller_events[i].type
              /\ result[i].duration = 100 * Milli
              /\ "id" \in DOMAIN result[i]

\* two notes given later one first, one of them without originalBeatIndex,
\* are returned as two score notes
C26_Witness ==
    /\ pc = "converted"
    /\ Len(caller_events) = 2
    /\ caller_events[1].time > caller_events[2].time
    /\ caller_events[1].type # caller_events[2].type
    /\ "originalBeatIndex" \notin DOMAIN caller_events[2]
    /\ Len(result) = 2
    /\ result[1].id # result[2].id

----------------------------------------------------------------------------
(* The size of an adjustment *)

\* the positions of the emitted list that hold an aligned event
AlignedPositions ==
    {k \in 1..Len(aligned_annotations) :
        InfoOf(aligned_annotations[k]).quantize_mode # "preserved"}

\* |adjustment| of the event emitted at position k
AdjustmentAt(k) == Abs(InfoOf(aligned_annotations[k]).adjustment)

\* C27: after a successful call on a timeline whose beat interval is not
\* negative, for every event the loop aligned |adjustment| is the distance
\* from its original time to the grid point it was moved to and is at most
\* tolerance * beat_interval; max_adjustment is the largest |adjustment| of the
\* aligned events as emitted, before the conflict resolver, 0.0 when there is
\* none, and never exceeds tolerance * beat_interval.
C27_AdjustmentWithinTolerance ==
    (Succeeded /\ beat_grid.beat_interval >= 0) =>
        LET tolerance_seconds == (tolerance * beat_grid.beat_interval) \div 100
            max_adjustment == result.alignment_stats.max_adjustment
        IN  /\ \A k \in AlignedPositions :
                  LET ref == aligned_annotations[k]
                  IN  /\ AdjustmentAt(k) = Abs(dicts[ref].time - InfoOf(ref).original_time)
                      /\ \E j \in 1..Len(quant_grid) : quant_grid[j].time = dicts[ref].time
                      /\ AdjustmentAt(k) = MinDistance(quant_grid, InfoOf(ref).original_time)
                      /\ AdjustmentAt(k) <= tolerance_seconds
            /\ AlignedPositions = {} => max_adjustment = 0
            /\ AlignedPositions # {} =>
                  /\ \E k \in AlignedPositions : max_adjustment = AdjustmentAt(k)
                  /\ \A k \in AlignedPositions : AdjustmentAt(k) <= max_adjustment
            /\ max_adjustment <= tolerance_seconds

\* two aligned events, the first moved by more than the second
C27_Witness ==
    /\ Succeeded
    /\ beat_grid.beat_interval > 0
    /\ AlignedPositions = {1, 2}
    /\ AdjustmentAt(1) > AdjustmentAt(2)
    /\ AdjustmentAt(2) > 0
    /\ result.alignment_stats.max_adjustment = AdjustmentAt(1)

----------------------------------------------------------------------------
(* A failing call *)

\* C28: a failure is all-or-nothing. When the call fails, because the timeline
\* lacks beat_interval, beats or duration, because an event lacks its time or a
\* colliding event its kind, the list of the result is the caller's own list:
\* the same events in the same order, unchanged, none of the copies made
\* before the failure; the statistics and the quantization info hold nothing
\* but the error marker.
C28_FailureReturnsCallersList ==
    Failed =>
        /\ result.aligned_annotations = annotations
        /\ Snapshot(dicts, infos, result.aligned_annotations) = caller_events
        /\ \A k \in 1..Len(aligned_annotations) : aligned_annotations[k] \notin Returned
        /\ DOMAIN result.alignment_stats = {"error"}
        /\ DOMAIN result.quantization_info = {"error"}
        /\ result.quantization_info.error = result.alignment_stats.error

\* the second event has no time: the call fails after it made a copy of the first
C28_Witness ==
    /\ Failed
    /\ result.alignment_stats.error = "time"
    /\ Len(annotations) = 2
    /\ Len(aligned_annotations) = 1
    /\ dicts[aligned_annotations[1]].time # caller_events[1].dict.time

----------------------------------------------------------------------------
(* The modes of the catalogue *)

\* C29: every mode of the catalogue other than "off", the triplet modes 1/4T
\* and 1/8T included, produces a grid that is not empty whenever at least one
\* shifted beat is not after the end of the timeline, so that an event exactly
\* on such a beat is aligned.
C29_EveryModeHasAGrid ==
    (Generated /\ quantize_mode # "off" /\ ShiftedBeats # {}) =>
        /\ quant_grid # <<>>
        /\ \A k \in ShiftedBeats :
              FindBestAlignment(ShiftedBeat(k), quant_grid, tolerance,
                                beat_grid.beat_interval).aligned

----------------------------------------------------------------------------
(* The conflict resolver applied to its own output *)

\* C30: one pass of _resolve_conflicts is complete: applied to its own output
\* it drops no event and shifts no event, that is, the output has no two
\* events whose times round to the same microsecond.
C30_ResolverOnePassComplete ==
    pc = "resolved" =>
        LET again == ResolveConflicts(dicts, infos, result)
        IN  /\ again.error = ""
            /\ again.out = result
            /\ \A j, k \in 1..Len(result) :
                  j < k => Round6(dicts[result[j]].time) # Round6(dicts[result[k]].time)

====
